---- MODULE Spec2Model ----
(***************************************************************************)
(* LINspector trace analysis engine: the single-pass record loop of        *)
(* process_log_file with the network-cycle machine, the schedule cursor,   *)
(* the LIN checksum validator, the gateway event capture, and the          *)
(* post-pass gateway correlation.                                          *)
(*                                                                         *)
(* Timestamps are integer milliseconds.  Python's None is modelled by      *)
(* None (a value below every timestamp and every byte).                    *)
(***************************************************************************)
EXTENDS Integers, Sequences, FiniteSets, TLC

(* ------------------------------------------------------------------ *)
(* Bounds of the model                                                  *)
(* ------------------------------------------------------------------ *)
\* number of log records of one run, per specification
MaxLog == 4
MaxNcLog == 3
MaxCkLog == 2
MaxGwLog == 4
MaxBlLog == 3
MaxIdLog == 3
MaxPidLog == 1
MaxDataLen == 8
MaxTabLog == 4
MaxSigLog == 3
MaxExtractLen == 2
MaxMapLen == 3

(* ------------------------------------------------------------------ *)
(* Program constants                                                    *)
(* ------------------------------------------------------------------ *)
None == 0 - 1
DEFAULT_GATEWAY_TOLERANCE_MS == 22
SLEEP_CMD_ID == 60

RECURSIVE Pow2(_)
Pow2(n) == IF n <= 0 THEN 1 ELSE 2 * Pow2(n - 1)

Bit(x, k) == (x \div Pow2(k)) % 2
Xor(a, b) == (a + b) % 2

RECURSIVE SumSeq(_)
SumSeq(s) == IF s = <<>> THEN 0 ELSE Head(s) + SumSeq(Tail(s))

\* Python truthiness of an Optional[float]: None and 0.0 are both falsy
Falsy(x) == x = None \/ x = 0

(* ------------------------------------------------------------------ *)
(* Numeric primitives                                                   *)
(* ------------------------------------------------------------------ *)
PidError == 0 - 2

\* calculate_pid: raises ValueError (PidError) outside 0..63
calculate_pid(frame_id) ==
    IF ~(0 <= frame_id /\ frame_id <= 63) THEN PidError
    ELSE LET id_bits == frame_id % 64
             p0 == Xor(Xor(Bit(id_bits, 0), Bit(id_bits, 1)),
                       Xor(Bit(id_bits, 2), Bit(id_bits, 4)))
             p1 == 1 - Xor(Xor(Bit(id_bits, 1), Bit(id_bits, 3)),
                           Xor(Bit(id_bits, 4), Bit(id_bits, 5)))
         IN (id_bits + p0 * 64 + p1 * 128) % 256

RECURSIVE FoldCarry(_)
FoldCarry(sum_val) ==
    IF sum_val > 255 THEN FoldCarry((sum_val % 256) + (sum_val \div 256))
    ELSE sum_val

\* the empty-data shortcut taken before the PID is looked at
calculate_checksum_empty_first(data_bytes, pid_for_enhanced) ==
    IF data_bytes = <<>> THEN 255
    ELSE IF pid_for_enhanced # None
    THEN 255 - FoldCarry(pid_for_enhanced + SumSeq(data_bytes))
    ELSE 255 - FoldCarry(SumSeq(data_bytes))

\* calculate_checksum(data_bytes, pid_for_enhanced); pid = None for classic;
\* PidError is the ValueError for a PID outside 0..0xFF
calculate_checksum(data_bytes, pid_for_enhanced) ==
    IF pid_for_enhanced # None
    THEN IF pid_for_enhanced < 0 \/ pid_for_enhanced > 255 THEN PidError
         ELSE 255 - FoldCarry(pid_for_enhanced + SumSeq(data_bytes))
    ELSE IF data_bytes = <<>> THEN 255
         ELSE 255 - FoldCarry(SumSeq(data_bytes))

\* data read as an LSB-first unsigned integer
RECURSIVE Combined(_)
Combined(data) ==
    IF data = <<>> THEN 0 ELSE (Head(data) % 256) + 256 * Combined(Tail(data))

\* big-endian accumulation of bits i..length-1; ok = FALSE is IndexError
RECURSIVE BigEndianBits(_, _, _, _, _)
BigEndianBits(data, start_bit, length, i, acc) ==
    IF i >= length THEN [ok |-> TRUE, val |-> acc]
    ELSE LET bit_index == 8 * (start_bit \div 8) + (7 - (start_bit % 8)) + i
             byte_index == bit_index \div 8
             bit_in_byte == bit_index % 8
         IN IF byte_index + 1 > Len(data) THEN [ok |-> FALSE, val |-> 0]
            ELSE BigEndianBits(data, start_bit, length, i + 1,
                     2 * acc + Bit(data[byte_index + 1], 7 - bit_in_byte))

\* an extraction that reads every signal LSB-first, whatever its byte order
extract_signal_value_lsb_first(data, start_bit, length, is_big_endian, is_signed) ==
    LET val == (Combined(data) \div Pow2(start_bit)) % Pow2(length)
    IN [ok |-> TRUE,
        val |-> IF is_signed /\ length > 0 /\ Bit(val, length - 1) = 1
                THEN val - Pow2(length) ELSE val]

extract_signal_value(data, start_bit, length, is_big_endian, is_signed) ==
    LET ext == IF is_big_endian
               THEN BigEndianBits(data, start_bit, length, 0, 0)
               ELSE [ok |-> TRUE,
                     val |-> (Combined(data) \div Pow2(start_bit)) % Pow2(length)]
    IN IF ext.ok /\ is_signed /\ length > 0 /\ Bit(ext.val, length - 1) = 1
       THEN [ok |-> TRUE, val |-> ext.val - Pow2(length)]
       ELSE ext

(* ------------------------------------------------------------------ *)
(* Bus model: LDF frames, schedule tables, DBC, gateway map             *)
(* ------------------------------------------------------------------ *)
MASTER == "M"

\* LDFData.frames: name -> LDFFrame(id, publisher, dlc)
LdfFrames ==
    [n \in {"F1", "F2", "MasterReq"} |->
        CASE n = "F1" -> [id |-> 1, publisher |-> "M", dlc |-> 2]
          [] n = "F2" -> [id |-> 2, publisher |-> "S", dlc |-> 2]
          [] n = "MasterReq" -> [id |-> SLEEP_CMD_ID, publisher |-> "M", dlc |-> 8]]

NoFrame == "-"

\* ldf_id_to_frame.get(frame_id_int): the frame name, or NoFrame
ldf_id_to_frame(frame_id_int) ==
    IF \E n \in DOMAIN LdfFrames : LdfFrames[n].id = frame_id_int
    THEN CHOOSE n \in DOMAIN LdfFrames : LdfFrames[n].id = frame_id_int
    ELSE NoFrame

Slot(f, d) == [frame_name |-> f, delay_ms |-> d]

\* LDFData.schedules after grouping: the schedule maps a run may be given
ScheduleConfigs ==
    { [n \in {"T"} |-> <<Slot("F1", 10), Slot("F2", 10)>>],
      [n \in {"T"} |-> <<Slot("F1", 10)>>],
      [n \in {"T1", "T2"} |->
          IF n = "T1" THEN <<Slot("F1", 10), Slot("F2", 10)>>
                      ELSE <<Slot("F1", 10), Slot("F1", 10)>>] }

\* sorted(): schedule names in string order
NameRank(n) == CASE n = "T" -> 0 [] n = "T1" -> 1 [] n = "T2" -> 2 [] OTHER -> 3

RECURSIVE SortedNames(_)
SortedNames(S) ==
    IF S = {} THEN <<>>
    ELSE LET m == CHOOSE x \in S : \A y \in S : NameRank(x) <= NameRank(y)
         IN <<m>> \o SortedNames(S \ {m})

\* ---- group_equivalent_schedules ----
\* a value of the schedules map: a list of slots, or something that is no list
TableList(entries) == [is_list |-> TRUE, entries |-> entries]
NotAList == [is_list |-> FALSE, entries |-> <<>>]

\* json.dumps(entries, sort_keys=True): the text of a list of slot dicts, keys in
\* sorted order; the md5 digest is taken as the text it digests
\* a digest of the slots of a list that forgets their order
SerializeUnordered(entries) == {entries[i] : i \in DOMAIN entries}

RECURSIVE Serialize(_)
Serialize(entries) ==
    IF entries = <<>> THEN <<>>
    ELSE <<"delay_ms", Head(entries).delay_ms, "frame_name", Head(entries).frame_name>>
         \o Serialize(Tail(entries))

Put(f, k, v) == [x \in DOMAIN f \cup {k} |-> IF x = k THEN v ELSE f[x]]

\* the loop over sorted(schedules.keys()): st = [hash_to_rep, orig_to_rep, rep_to_all]
RECURSIVE GroupLoop(_, _, _)
GroupLoop(schedules, names, st) ==
    IF names = <<>> THEN st
    ELSE LET original_name == Head(names)
             table == schedules[original_name]
         IN IF ~table.is_list
            THEN GroupLoop(schedules, Tail(names),
                     [st EXCEPT !.orig_to_rep = Put(@, original_name, original_name),
                                !.rep_to_all = Put(@, original_name, {original_name})])
            ELSE LET content_hash == Serialize(table.entries)
                     h2r == IF content_hash \notin DOMAIN st.hash_to_rep
                            THEN Put(st.hash_to_rep, content_hash, original_name)
                            ELSE st.hash_to_rep
                     representative_name == h2r[content_hash]
                     grouped == IF representative_name \in DOMAIN st.rep_to_all
                                THEN st.rep_to_all[representative_name] ELSE {}
                 IN GroupLoop(schedules, Tail(names),
                        [hash_to_rep |-> h2r,
                         orig_to_rep |-> Put(st.orig_to_rep, original_name,
                                             representative_name),
                         rep_to_all |-> Put(st.rep_to_all, representative_name,
                                            grouped \cup {original_name})])

\* only the representatives of groups that merged two or more tables are kept
UniqueSchedulesMergedOnly(schedules, rep_to_all) ==
    [rep_name \in {n \in DOMAIN rep_to_all : Cardinality(rep_to_all[n]) > 1}
        |-> schedules[rep_name]]

\* unique_schedules[rep_name] = schedules[rep_name] for every representative
UniqueSchedules(schedules, rep_to_all) ==
    [rep_name \in DOMAIN rep_to_all |-> schedules[rep_name]]

group_equivalent_schedules(schedules) ==
    IF DOMAIN schedules = {}
    THEN [unique |-> <<>>, orig_to_rep |-> <<>>, rep_to_all |-> <<>>]
    ELSE LET st == GroupLoop(schedules, SortedNames(DOMAIN schedules),
                             [hash_to_rep |-> <<>>, orig_to_rep |-> <<>>,
                              rep_to_all |-> <<>>])
         IN [unique |-> UniqueSchedules(schedules, st.rep_to_all),
             orig_to_rep |-> st.orig_to_rep,
             rep_to_all |-> [r \in DOMAIN st.rep_to_all |->
                                SortedNames(st.rep_to_all[r])]]

\* can_dbcs: channels that have a DBC
valid_can_channels == {"CAN1"}

\* signal objects referenced by the gateway map
SigSource == [name |-> "Sig", start_bit |-> 0, length |-> 8,
              is_big_endian |-> FALSE, is_signed |-> FALSE,
              factor |-> 1, offset |-> 0, logical_map |-> {1}]
SigTarget == [name |-> "B", start_bit |-> 7, length |-> 16,
              is_big_endian |-> TRUE, is_signed |-> FALSE,
              factor |-> 1, offset |-> 0, logical_map |-> {1, 2}]

GW_TARGET_CAN_ID == 256

\* gateway_lookup: one resolved mapping, LIN F2.Sig -> CAN1 message 0x100 signal B
GatewayMap ==
    << [map_index |-> 1,
        source_network |-> "LIN", source_id |-> 2, source_sig |-> SigSource,
        target_network |-> "CAN1", target_id |-> GW_TARGET_CAN_ID,
        target_sig |-> SigTarget] >>

MapIdx == {GatewayMap[i].map_index : i \in DOMAIN GatewayMap}

\* entry.channel.startswith('CAN') on the channel names of the tokenizer
IsCan(ch) == ch \in {"CAN1", "CAN2", "CAN3", "CANFD1", "CANFD2", "CANFD3"}

\* ---- parse_dbcs_for_channel ----
\* a parsed DBC file: its messages in file order and its Baudrate attribute
\* (None when the file declares none)
DbcMsg(id, name, signals, dlc) ==
    [id |-> id, name |-> name, signals |-> signals, dlc |-> dlc]
DbcFile(messages, baudrate) == [messages |-> messages, baudrate |-> baudrate]

\* the loop over the messages of one file; st = [agg, first_baudrate_found];
\* the ValueError of a baud-rate mismatch is caught by the function's own
\* "except Exception", which goes on with the next file
RECURSIVE AggregateFile(_, _, _)
AggregateFile(msgs, file_baudrate, st) ==
    IF msgs = <<>> THEN st
    ELSE LET msg_obj == Head(msgs)
             agg1 == IF msg_obj.id \notin DOMAIN st.agg
                     THEN Put(st.agg, msg_obj.id,
                              [name |-> msg_obj.name, signals |-> msg_obj.signals,
                               dlc |-> msg_obj.dlc])
                     ELSE [st.agg EXCEPT
                              ![msg_obj.id].signals = @ \cup msg_obj.signals,
                              ![msg_obj.id].dlc =
                                  IF @ = None /\ msg_obj.dlc # None
                                  THEN msg_obj.dlc ELSE @]
         IN IF file_baudrate # None
            THEN IF st.first_baudrate_found = None
                 THEN AggregateFile(Tail(msgs), file_baudrate,
                          [agg |-> agg1, first_baudrate_found |-> file_baudrate])
                 ELSE IF st.first_baudrate_found # file_baudrate
                 THEN [st EXCEPT !.agg = agg1]      \* raise, caught: next file
                 ELSE AggregateFile(Tail(msgs), file_baudrate,
                                    [st EXCEPT !.agg = agg1])
            ELSE AggregateFile(Tail(msgs), file_baudrate,
                     [st EXCEPT !.agg = [agg1 EXCEPT
                          ![msg_obj.id].signals = @ \cup msg_obj.signals,
                          ![msg_obj.id].name = msg_obj.name,
                          ![msg_obj.id].dlc = msg_obj.dlc]])

RECURSIVE AggregateFiles(_, _)
AggregateFiles(files, st) ==
    IF files = <<>> THEN st
    ELSE AggregateFiles(Tail(files),
             AggregateFile(Head(files).messages, Head(files).baudrate, st))

\* raised: an exception leaves the function; messages: final_channel_messages;
\* baudrate: global_attributes_aggregated.get("Baudrate")
parse_dbcs_for_channel(dbc_files) ==
    LET st == AggregateFiles(dbc_files, [agg |-> <<>>, first_baudrate_found |-> None])
    IN [raised |-> FALSE, messages |-> st.agg, baudrate |-> st.first_baudrate_found]

\* ---- resolution of the user's gateway map (main) ----
\* the networks the map is resolved against: LDF frames with their signals
\* (Fn has no assigned id) and the DBC messages of channel CAN1
GwLdfFrames ==
    [n \in {"F1", "F2", "Fn"} |->
        CASE n = "F1" -> [id |-> 1, signals |-> {}]
          [] n = "F2" -> [id |-> 2, signals |-> {"Sig"}]
          [] n = "Fn" -> [id |-> None, signals |-> {"Sn"}]]

GwCanDbcs ==
    [c \in valid_can_channels |->
        [i \in {GW_TARGET_CAN_ID} |-> [name |-> "Msg", signals |-> {"B"}]]]

\* str.strip() on the names used here
Strip(s) == CASE s = "Sig " -> "Sig" [] s = " Msg" -> "Msg" [] OTHER -> s

\* find_message_details_for_gateway: the message id, or None
find_message_details_for_gateway(network_type, message_name, signal_name) ==
    LET message_name_clean == Strip(message_name)
        signal_name_clean == Strip(signal_name)
    IN IF network_type = "LIN"
       THEN IF message_name_clean \notin DOMAIN GwLdfFrames THEN None
            ELSE LET frame_obj == GwLdfFrames[message_name_clean]
                 IN IF signal_name_clean \in frame_obj.signals
                    THEN frame_obj.id     \* None when the frame has no id
                    ELSE None
       ELSE IF IsCan(network_type)
       THEN IF network_type \notin DOMAIN GwCanDbcs THEN None
            ELSE LET dbc == GwCanDbcs[network_type]
                     named == {i \in DOMAIN dbc : dbc[i].name = message_name_clean}
                 IN IF named = {} THEN None
                    ELSE LET i == CHOOSE i \in named : TRUE
                         IN IF signal_name_clean \in dbc[i].signals THEN i ELSE None
       ELSE None

\* ldf_sigs_by_name.get(name) / dbc_sigs_by_name.get(name): is there an object
SignalObjFound(network, signal_name) ==
    IF network = "LIN"
    THEN \E n \in DOMAIN GwLdfFrames : signal_name \in GwLdfFrames[n].signals
    ELSE \E c \in DOMAIN GwCanDbcs : \E i \in DOMAIN GwCanDbcs[c] :
             signal_name \in GwCanDbcs[c][i].signals

\* the body of main's loop for one mapping; an index is a set of
\* <<network, message id, map_index>>
RegisterMapping(lookup, map_index, mapping) ==
    LET src_details == find_message_details_for_gateway(
            mapping.source_network, mapping.source_message, mapping.source_signal)
        tgt_details == find_message_details_for_gateway(
            mapping.target_network, mapping.target_message, mapping.target_signal)
    IN [source |-> lookup.source \cup
                   IF /\ src_details # None
                      /\ SignalObjFound(mapping.source_network, mapping.source_signal)
                   THEN {<<mapping.source_network, src_details, map_index>>}
                   ELSE {},
        target |-> lookup.target \cup
                   IF /\ tgt_details # None
                      /\ SignalObjFound(mapping.target_network, mapping.target_signal)
                   THEN {<<mapping.target_network, tgt_details, map_index>>}
                   ELSE {}]

\* for map_index, mapping in enumerate(user_gateway_map)
RECURSIVE BuildGatewayLookup(_, _, _)
BuildGatewayLookup(user_gateway_map, k, lookup) ==
    IF k > Len(user_gateway_map) THEN lookup
    ELSE BuildGatewayLookup(user_gateway_map, k + 1,
                            RegisterMapping(lookup, k - 1, user_gateway_map[k]))

\* ---- load_gateway_map ----
\* an element of the JSON list: a dict (its keys and string values) or not
RawDict(fields) == [is_dict |-> TRUE, fields |-> fields]
RawNotDict == [is_dict |-> FALSE, fields |-> <<>>]

required_keys == {"source_network", "source_message", "source_signal",
                  "target_network", "target_message", "target_signal"}
valid_networks == {"LIN", "CAN1", "CAN2", "CAN3", "CANFD1", "CANFD2", "CANFD3"}

current_mapping_valid(m) ==
    /\ required_keys \ DOMAIN m.fields = {}
    /\ "source_network" \in DOMAIN m.fields
    /\ m.fields["source_network"] \in valid_networks
    /\ "target_network" \in DOMAIN m.fields
    /\ m.fields["target_network"] \in valid_networks

\* the validation loop: the dicts that pass, in list order
RECURSIVE load_gateway_map(_)
load_gateway_map(mappings) ==
    IF mappings = <<>> THEN <<>>
    ELSE LET m == Head(mappings)
         IN (IF m.is_dict /\ current_mapping_valid(m) THEN <<m.fields>> ELSE <<>>)
                \o load_gateway_map(Tail(mappings))

\* an enumeration that counts from 0 over the list it is given
EnumerateFrom0(user_gateway_map) ==
    [k \in DOMAIN user_gateway_map |->
        [mapping |-> user_gateway_map[k], map_index |-> k - 1]]

\* main: mapping['map_index'] = map_index for map_index, mapping in
\* enumerate(user_gateway_map), and the lookup built in the same loop
LoadAndRegister(mappings) ==
    LET user_gateway_map == load_gateway_map(mappings)
    IN [user_gateway_map |-> EnumerateFrom0(user_gateway_map),
        gateway_lookup |-> BuildGatewayLookup(user_gateway_map, 1,
                                              [source |-> {}, target |-> {}])]

(* ------------------------------------------------------------------ *)
(* Log records (LogEntry) as the tokenizer yields them                  *)
(* ------------------------------------------------------------------ *)
\* substrings of raw_line the network-cycle machine looks for
WAKE == "wake up"
SLEEP == "entering sleep mode"
START == "starting up"

\* the identifier field as written in the line: its value and its spelling
\* ("2A", "2a"); frame_id_int = int(frame_id, 16) keeps the value only
IdText(id, spelling) == <<id, spelling>>

Entry(ch, ty, id, data, cks, csm, ech, txt, ts) ==
    [channel |-> ch, type |-> ty, frame_id |-> IdText(id, "upper"),
     frame_id_int |-> id, data |-> data,
     declared_checksum |-> cks, csm |-> csm, event_channel |-> ech,
     text |-> txt, timestamp |-> ts,
     full_time_tbit |-> None, header_time_tbit |-> None]

\* the same line with the identifier in lower-case hex digits
LowerCaseId(e) == [e EXCEPT !.frame_id = IdText(e.frame_id_int, "lower")]

\* a LIN frame line that carries its measured length ("FT = <tbit>")
WithFullTime(e, tbit) == [e EXCEPT !.full_time_tbit = tbit]

NoEntry == Entry("-", "-", None, <<>>, None, "-", None, {}, None)

NoCsm == "-"

\* LIN frame lines: <ts> Li <id> <type> <bytes> [checksum=..] [CSM=..]
LinFrameEntries(types, ids, datas, ckss, csms, tss) ==
    { Entry("LIN", ty, id, d, c, m, None, {}, ts) :
        ty \in types, id \in ids, d \in datas, c \in ckss, m \in csms, ts \in tss }

\* TransmErr / RcvError lines: the id may be missing (-1), data is empty
LinErrorEntries(ids, tss) ==
    { Entry("LIN", ty, id, <<>>, None, NoCsm, None, {}, ts) :
        ty \in {"TransmErr", "RcvError"}, id \in ids, ts \in tss }

SpikeEntries(tss) ==
    { Entry("LIN", "Spike", None, <<>>, None, NoCsm, None, {}, ts) : ts \in tss }

\* <ts> Li SleepModeEvent <channel> <text>
SleepModeEntries(chans, texts, tss) ==
    { Entry("LIN", "SleepModeEvent", None, <<>>, None, NoCsm, c, t, ts) :
        c \in chans, t \in texts, ts \in tss }

\* CAN / CAN-FD frame lines
CanEntries(chans, ids, datas, tss) ==
    { Entry(c, "Rx", id, d, None, NoCsm, None, {}, ts) :
        c \in chans, id \in ids, d \in datas, ts \in tss }

\* str.lower() on the words the validators compare
Lower(w) ==
    CASE w = "Rx" -> "rx"
      [] w = "Tx" -> "tx"
      [] w = "Enhanced" -> "enhanced"
      [] w = "Classic" -> "classic"
      [] w = "RX" -> "rx"
      [] w = "TransmErr" -> "transmerr"
      [] w = "RcvError" -> "rcverror"
      [] OTHER -> w

(* ------------------------------------------------------------------ *)
(* State                                                                *)
(* ------------------------------------------------------------------ *)
VARIABLES
    pc,                 \* "run": in the record loop; "raised": an exception left
                        \* process_log_file; "done": the result is finalized
    nlog,               \* records fetched so far
    entry,              \* the record of the current loop iteration
    ldf_schedules,      \* ldf_data.schedules
    nc_state,           \* log_stats['network_cycle_state']
    nc_summary,         \* log_stats['network_cycle_summary']
    sched_state,        \* log_stats['schedule_runtime_state']
    cycles,             \* log_stats['schedule_analysis']['cycles']
    global_errors,      \* log_stats['schedule_analysis']['global_errors']
    checksum_errors,    \* log_stats['error_summary']['checksum']: key -> count
    gateway_source_events,  \* map index -> list of <<ts, raw>>
    gateway_target_events,
    gateway_results,    \* log_stats['gateway_results']
    log_info,           \* log_stats['log_info']: start_time, end_time
    lin_bus_load,       \* log_stats['lin_bus_load'] with the accountant's locals
    foreign_ids,        \* log_stats['foreign_ids_summary']['lin']: key -> bucket
    dlc_errors,         \* log_stats['error_summary']['dlc']: key -> bucket
    parity_errors,      \* log_stats['error_summary']['parity']: key -> bucket
    sync_errors,        \* log_stats['error_summary']['sync']: key -> bucket
    schedule_timing_mismatches,  \* <<schedule, slot index>> -> count
    slave_reliability,  \* <<publisher, frame>> -> [requests, responses]
    logger_cycle_state, \* log_stats['logger_cycle_state']: active, start_ts
    logger_activity_periods,    \* list of [start_ts, end_ts, duration_s]
    signal_stats,       \* log_stats['signal_stats']: <<network, signal>> -> stats
    signal_range_errors,        \* log_stats['signal_range_errors']: key -> bucket
    call_args,          \* the arguments of a function called on its own
    call_result         \* what that call returned

vars == <<pc, nlog, entry, ldf_schedules, nc_state, nc_summary, sched_state,
          cycles, global_errors, checksum_errors, gateway_source_events,
          gateway_target_events, gateway_results, log_info, lin_bus_load,
          foreign_ids, dlc_errors, parity_errors, sync_errors,
          schedule_timing_mismatches, slave_reliability, logger_cycle_state,
          logger_activity_periods, signal_stats, signal_range_errors,
          call_args, call_result>>

InitSchedState ==
    [active_schedules |-> <<>>, current_index |-> 0,
     last_event_timestamp |-> None, cycle_start_timestamp |-> None,
     cycle_log |-> <<>>, has_timing_errors |-> FALSE]

InitGatewayResult ==
    [comparisons |-> 0, matches |-> 0, mismatches_value |-> 0,
     mismatches_type |-> 0, mismatches_timing |-> 0, has_mapping_info |-> FALSE,
     latency_stats |-> [count |-> 0, sum |-> 0, min |-> None, max |-> None]]

\* initialize_log_stats and the locals of process_log_file
EmptyLogStats ==
    /\ nlog = 0
    /\ entry = NoEntry
    /\ nc_state = [active |-> FALSE, last_wake_event_ts |-> None,
                   first_master_found |-> FALSE, problem_flags |-> {}]
    /\ nc_summary = [total_cycles_detected |-> 0, cycles_completed |-> 0,
                     cycles_incomplete |-> 0, cycles_no_master_response |-> 0,
                     example_problem_cycle |-> <<>>]
    /\ sched_state = InitSchedState
    /\ cycles = <<>>
    /\ global_errors = <<>>
    /\ checksum_errors = <<>>
    /\ gateway_source_events = [i \in MapIdx |-> <<>>]
    /\ gateway_target_events = [i \in MapIdx |-> <<>>]
    /\ gateway_results = [i \in MapIdx |-> InitGatewayResult]
    /\ log_info = [start_time |-> None, end_time |-> None, duration |-> 0]
    /\ lin_bus_load = [current_window_index |-> 0 - 1, time_in_window |-> <<>>,
                       bus_load_by_window |-> <<>>, total_busy_time |-> 0,
                       duration_analyzed_s |-> 0, percentage |-> <<>>]
    /\ foreign_ids = <<>>
    /\ dlc_errors = <<>>
    /\ parity_errors = <<>>
    /\ sync_errors = <<>>
    /\ schedule_timing_mismatches = <<>>
    /\ slave_reliability = <<>>
    /\ logger_cycle_state = [active |-> FALSE, start_ts |-> None]
    /\ logger_activity_periods = <<>>
    /\ signal_stats = <<>>
    /\ signal_range_errors = <<>>

InitLogStats ==
    /\ pc = "run"
    /\ call_args = <<>>
    /\ call_result = <<>>
    /\ EmptyLogStats

(* ------------------------------------------------------------------ *)
(* Bus-load accountant                                                  *)
(* ------------------------------------------------------------------ *)
\* Busy time is kept in bit times (seconds * lin_baudrate); a window value of
\* bus_load_by_window is kept in bit times too (percentage * WindowBits / 100).
LIN_BAUDRATE == 19200
BUS_LOAD_WINDOW_MS == 5
WindowBits == (LIN_BAUDRATE * BUS_LOAD_WINDOW_MS) \div 1000

\* int(a / b) for b > 0: truncation towards zero
TruncDiv(a, b) == IF a >= 0 THEN a \div b ELSE 0 - ((0 - a) \div b)

\* frame_duration_s * lin_baudrate, or None
frame_duration(e) ==
    IF e.channel # "LIN" THEN None
    ELSE IF Lower(e.type) = "rx"
    THEN IF e.full_time_tbit # None THEN e.full_time_tbit
         ELSE 34 + (Len(e.data) + 1) * 10
    ELSE IF Lower(e.type) \in {"transmerr", "rcverror"}
    THEN IF e.header_time_tbit # None THEN e.header_time_tbit ELSE 34
    ELSE None

Zeros(n) == [i \in 1..n |-> 0]

AddTo(f, k, v) ==
    IF k \in DOMAIN f THEN [f EXCEPT ![k] = @ + v] ELSE (k :> v) @@ f

\* the window bookkeeping of one record
account_bus_load(e, start_ts, bl) ==
    LET d == frame_duration(e)
        window_index == TruncDiv(e.timestamp - start_ts, BUS_LOAD_WINDOW_MS)
        cwi == bl.current_window_index
        emitted == IF cwi # 0 - 1
                   THEN Append(bl.bus_load_by_window, bl.time_in_window[cwi])
                   ELSE bl.bus_load_by_window
    IN IF d = None THEN bl
       ELSE [bl EXCEPT
             !.current_window_index = IF window_index > cwi THEN window_index ELSE cwi,
             !.bus_load_by_window =
                 IF window_index > cwi
                 THEN emitted \o Zeros(window_index - cwi - 1)
                 ELSE bl.bus_load_by_window,
             !.time_in_window = AddTo(bl.time_in_window, window_index, d),
             !.total_busy_time = bl.total_busy_time + d]

\* after the loop: the open window, then empty windows up to the log duration
flush_bus_load(bl, info) ==
    LET cwi == bl.current_window_index
        flushed == IF cwi # 0 - 1
                   THEN Append(bl.bus_load_by_window, bl.time_in_window[cwi])
                   ELSE bl.bus_load_by_window
        total_windows_expected ==
            TruncDiv(info.end_time - info.start_time, BUS_LOAD_WINDOW_MS)
        missing == total_windows_expected + 1 - Len(flushed)
    IN IF info.start_time = None THEN bl
       ELSE [bl EXCEPT !.bus_load_by_window =
                flushed \o Zeros(IF missing > 0 THEN missing ELSE 0)]

\* _finalize_statistics, log duration: taken only when both ends are truthy
LogDuration(info) ==
    IF ~Falsy(info.end_time) /\ ~Falsy(info.start_time)
    THEN info.end_time - info.start_time
    ELSE 0

\* _finalize_statistics, overall bus load: total_busy_time / duration, kept
\* as the pair <<busy bit times, duration in ms>>; <<>> is the initial 0.0
finalize_bus_load(bl, duration) ==
    [bl EXCEPT !.duration_analyzed_s = duration,
               !.percentage = IF duration > 0
                              THEN <<bl.total_busy_time, duration>> ELSE @]

(* ------------------------------------------------------------------ *)
(* Network-cycle machine                                                *)
(* ------------------------------------------------------------------ *)
is_sleep_mode_event(e) == e.type = "SleepModeEvent"

is_bus_wake_event(e) ==
    /\ is_sleep_mode_event(e)
    /\ e.event_channel = 1
    /\ (WAKE \in e.text \/ "waking up" \in e.text)

is_bus_sleep_command(e) ==
    /\ e.frame_id_int = SLEEP_CMD_ID
    /\ e.data # <<>>
    /\ e.data[1] = 0

is_any_sleep_event(e) ==
    \/ (is_sleep_mode_event(e) /\ SLEEP \in e.text)
    \/ is_bus_sleep_command(e)

is_lin_traffic(e) ==
    e.channel = "LIN" /\ e.type \in {"Rx", "Tx", "TransmErr", "RcvError"}

\* an implicit start that does not look at the sleep command
OpenCycleAnyTraffic(e, st) ==
    IF st.state.active THEN st
    ELSE IF is_bus_wake_event(e) \/ is_lin_traffic(e)
    THEN [state |-> [st.state EXCEPT
                        !.active = TRUE,
                        !.last_wake_event_ts =
                            IF is_bus_wake_event(e) THEN e.timestamp ELSE None,
                        !.first_master_found = FALSE,
                        !.problem_flags =
                            IF is_bus_wake_event(e) THEN {} ELSE {"Implicit Start"}],
          summary |-> [st.summary EXCEPT !.total_cycles_detected = @ + 1]]
    ELSE st

\* the "if not state['active']" block: opening a network cycle
OpenCycle(e, st) ==
    IF st.state.active THEN st
    ELSE IF is_bus_wake_event(e)
    THEN [state |-> [st.state EXCEPT !.active = TRUE,
                                    !.last_wake_event_ts = e.timestamp,
                                    !.first_master_found = FALSE,
                                    !.problem_flags = {}],
          summary |-> [st.summary EXCEPT !.total_cycles_detected = @ + 1]]
    ELSE IF ~is_any_sleep_event(e) /\ is_lin_traffic(e)
    THEN [state |-> [st.state EXCEPT !.active = TRUE,
                                    !.last_wake_event_ts = None,
                                    !.first_master_found = FALSE,
                                    !.problem_flags = {"Implicit Start"}],
          summary |-> [st.summary EXCEPT !.total_cycles_detected = @ + 1]]
    ELSE st

\* the flag of a cycle in which no master frame was found
NoMasterFlag(state) ==
    IF state.first_master_found THEN {} ELSE {"No Master Response"}

\* summary['example_problem_cycle'] is None (<<>> here) until the first cycle
\* with a problem flag ends; it holds the flags of that cycle from then on
KeepExample(example, flags) ==
    IF flags # {} /\ example = <<>> THEN <<flags>> ELSE example

\* the "if state['active']" block: closing the cycle, or the first master frame
CloseOrTrackCycle(e, st) ==
    IF ~st.state.active THEN st
    ELSE IF is_any_sleep_event(e)
    THEN [state |-> [st.state EXCEPT !.active = FALSE,
                                    !.problem_flags = {},
                                    !.last_wake_event_ts = None,
                                    !.first_master_found = FALSE],
          summary |-> [st.summary EXCEPT
                          !.cycles_no_master_response =
                              IF st.state.first_master_found THEN @ ELSE @ + 1,
                          !.cycles_completed = @ + 1,
                          !.example_problem_cycle =
                              KeepExample(@, st.state.problem_flags
                                                \cup NoMasterFlag(st.state))]]
    ELSE IF /\ ~st.state.first_master_found
            /\ e.channel = "LIN" /\ Lower(e.type) = "rx"
            /\ ldf_id_to_frame(e.frame_id_int) # NoFrame
            /\ LdfFrames[ldf_id_to_frame(e.frame_id_int)].publisher = MASTER
    THEN [st EXCEPT !.state.first_master_found = TRUE,
                    !.state.last_wake_event_ts = None]
    ELSE st

update_network_cycle_state(e, st) == CloseOrTrackCycle(e, OpenCycle(e, st))

\* the last block of update_network_cycle_state, the logger activity machine:
\* st = [state, periods]
update_logger_cycle_state(e, st) ==
    LET is_logger_start == START \in e.text \/ "waking up" \in e.text
        is_logger_sleep == SLEEP \in e.text
    IN IF ~(is_sleep_mode_event(e) /\ e.event_channel = 0) THEN st
       ELSE IF ~st.state.active /\ is_logger_start
       THEN [st EXCEPT !.state = [active |-> TRUE, start_ts |-> e.timestamp]]
       ELSE IF st.state.active /\ is_logger_sleep
       THEN [state |-> [active |-> FALSE, start_ts |-> None],
             periods |-> IF st.state.start_ts # None
                         THEN Append(st.periods,
                                     [start_ts |-> st.state.start_ts,
                                      end_ts |-> e.timestamp,
                                      duration_s |-> e.timestamp - st.state.start_ts])
                         ELSE st.periods]
       ELSE st

(* ------------------------------------------------------------------ *)
(* ID / DLC and parity validators                                       *)
(* ------------------------------------------------------------------ *)
\* summary['count'] += 1; first_ts set once; last_ts = entry.timestamp
Touch(buckets, key, ts) ==
    IF key \in DOMAIN buckets
    THEN [buckets EXCEPT ![key] =
             [count |-> @.count + 1,
              first_ts |-> IF @.first_ts = None THEN ts ELSE @.first_ts,
              last_ts |-> ts]]
    ELSE (key :> [count |-> 1, first_ts |-> ts, last_ts |-> ts]) @@ buckets

\* a DLC check that only reports frames longer than the LDF says
validate_lin_ids_and_dlcs_longer(e, st) ==
    IF e.channel # "LIN" \/ Lower(e.type) # "rx" THEN st
    ELSE IF ldf_id_to_frame(e.frame_id_int) = NoFrame
    THEN [st EXCEPT !.foreign = Touch(@, e.frame_id, e.timestamp)]
    ELSE LET expected_dlc == LdfFrames[ldf_id_to_frame(e.frame_id_int)].dlc
             observed_dlc == Len(e.data)
         IN IF observed_dlc > expected_dlc
            THEN [st EXCEPT !.dlc = Touch(@, <<e.frame_id_int, expected_dlc, observed_dlc>>,
                                          e.timestamp)]
            ELSE st

\* st = [foreign, dlc]
validate_lin_ids_and_dlcs(e, st) ==
    IF e.channel # "LIN" \/ Lower(e.type) # "rx" THEN st
    ELSE IF ldf_id_to_frame(e.frame_id_int) = NoFrame
    THEN [st EXCEPT !.foreign = Touch(@, e.frame_id, e.timestamp)]
    ELSE LET expected_dlc == LdfFrames[ldf_id_to_frame(e.frame_id_int)].dlc
             observed_dlc == Len(e.data)
         IN IF observed_dlc # expected_dlc
            THEN [st EXCEPT !.dlc = Touch(@, <<e.frame_id_int, expected_dlc, observed_dlc>>,
                                          e.timestamp)]
            ELSE st

\* P1 taken without the inversion
ExpectedPidPlainP1(pid) ==
    LET raw_id == pid % 64
        p0 == Xor(Xor(Bit(raw_id, 0), Bit(raw_id, 1)), Xor(Bit(raw_id, 2), Bit(raw_id, 4)))
        p1 == Xor(Xor(Bit(raw_id, 1), Bit(raw_id, 3)), Xor(Bit(raw_id, 4), Bit(raw_id, 5)))
    IN raw_id + 64 * p0 + 128 * p1

\* validate_timestamp_sync(current_timestamp, last_valid_timestamp, log_stats):
\* the timestamp to carry on with and the sync buckets; process_log_file and
\* the functions it calls contain no call of it
validate_timestamp_sync(current_timestamp, last_valid_timestamp, sync) ==
    IF last_valid_timestamp = None
    THEN [ts |-> current_timestamp, sync |-> sync]
    ELSE LET delta == current_timestamp - last_valid_timestamp
         IN [ts |-> current_timestamp,
             sync |-> IF delta < 0
                      THEN IF "negative_jump" \in DOMAIN sync
                           THEN [sync EXCEPT !["negative_jump"] =
                                    [@ EXCEPT !.count = @ + 1,
                                              !.last_ts = current_timestamp]]
                           ELSE ("negative_jump" :>
                                    [count |-> 1, first_ts |-> current_timestamp,
                                     last_ts |-> current_timestamp,
                                     example_details |->
                                         [prev |-> last_valid_timestamp,
                                          current |-> current_timestamp,
                                          delta |-> delta]]) @@ sync
                      ELSE sync]

\* expected_pid = raw_id | (p0 << 6) | (p1 << 7), as validate_id_parity computes it
ExpectedPid(pid) ==
    LET raw_id == pid % 64
        p0 == Xor(Xor(Bit(raw_id, 0), Bit(raw_id, 1)), Xor(Bit(raw_id, 2), Bit(raw_id, 4)))
        p1 == 1 - Xor(Xor(Bit(raw_id, 1), Bit(raw_id, 3)), Xor(Bit(raw_id, 4), Bit(raw_id, 5)))
    IN raw_id + 64 * p0 + 128 * p1

validate_id_parity(e, errors) ==
    IF e.channel # "LIN" \/ e.frame_id_int < 64 THEN errors
    ELSE IF ExpectedPid(e.frame_id_int) # e.frame_id_int
    THEN Touch(errors, e.frame_id_int, e.timestamp)
    ELSE errors

(* ------------------------------------------------------------------ *)
(* LIN checksum validator                                               *)
(* ------------------------------------------------------------------ *)
Bump(buckets, key) ==
    IF key \in DOMAIN buckets THEN [buckets EXCEPT ![key] = @ + 1]
    ELSE (key :> 1) @@ buckets

\* the expected checksum of a record that reaches the comparison
ExpectedChecksum(e) ==
    IF Lower(e.csm) = "enhanced"
    THEN calculate_checksum(<<calculate_pid(e.frame_id_int)>> \o e.data, None)
    ELSE calculate_checksum(e.data, None)

\* result: raised = an exception leaves the validator; errors = the buckets
validate_lin_checksum(e, errors) ==
    IF e.channel # "LIN" \/ Lower(e.type) # "rx" \/ e.declared_checksum = None
    THEN [raised |-> FALSE, errors |-> errors]
    ELSE IF e.data = <<>> /\ e.csm = NoCsm
    THEN [raised |-> TRUE, errors |-> errors]     \* None.lower(): AttributeError
    ELSE IF e.data = <<>> /\ Lower(e.csm) # "enhanced"
    THEN [raised |-> FALSE, errors |-> errors]
    ELSE IF Lower(e.csm) = "enhanced" /\ calculate_pid(e.frame_id_int) = PidError
    THEN [raised |-> FALSE, errors |-> errors]    \* ValueError caught: return
    ELSE IF ExpectedChecksum(e) # e.declared_checksum
    THEN [raised |-> FALSE,
          errors |-> Bump(errors, <<e.frame_id_int, ExpectedChecksum(e),
                                    e.declared_checksum>>)]
    ELSE [raised |-> FALSE, errors |-> errors]

(* ------------------------------------------------------------------ *)
(* Schedule adherence                                                   *)
(* ------------------------------------------------------------------ *)
SCHEDULE_MIN_TOLERANCE_MS == 5
MASTER_JITTER_MS == 0

Abs(x) == IF x < 0 THEN 0 - x ELSE x
Max(a, b) == IF a >= b THEN a ELSE b

\* 2^k mod m
RECURSIVE PowMod(_, _)
PowMod(k, m) == IF k = 0 THEN 1 % m ELSE (2 * PowMod(k - 1, m)) % m

RECURSIVE Log2Floor(_)
Log2Floor(q) == IF q < 2 THEN 0 ELSE 1 + Log2Floor(q \div 2)

\* the least j with n * 2^j >= 1000, for 1 <= n < 1000
RECURSIVE HalvingsBelowOne(_)
HalvingsBelowOne(n) == IF n >= 1000 THEN 0 ELSE 1 + HalvingsBelowOne(2 * n)

\* the binary exponent e of n / 1000: 2^e <= n / 1000 < 2^(e + 1), n >= 1
FloatExponent(n) ==
    IF n >= 1000 THEN Log2Floor(n \div 1000) ELSE 0 - HalvingsBelowOne(n)

\* float("<n / 1000>") and <n> / 1000.0 are the double nearest to n / 1000:
\* the mantissa is n * 2^k / 1000 rounded to an integer, k = 52 - e. FloatErr
\* is the signed distance of that double from n / 1000 in units of
\* 2^-62 / 1000 (n * 2^k is a multiple of 8, so it is never half way between
\* two mantissas)
FloatErr(n) ==
    IF n = 0 THEN 0
    ELSE LET k == 52 - FloatExponent(n)
             r == ((n % 1000) * PowMod(k, 1000)) % 1000
         IN (IF r < 500 THEN 0 - r ELSE 1000 - r) * Pow2(62 - k)

\* not (abs(observed_delay_s - expected_delay_ms / 1000.0) <= tolerance_abs) on
\* the doubles of the timestamps (ms): the millisecond parts decide, in ms * 10,
\* unless they are equal; then the rounding errors of the operands decide. Both
\* subtractions are exact for the timestamps used here (one of them 0, or
\* each at most twice the other), and with delays below 50 ms the tolerance
\* is the double of min_absolute_tolerance_s.
TimingViolation(current_ts, last_ts, expected_ms) ==
    LET observed_ms == current_ts - last_ts
        apart == 10 * Abs(observed_ms - expected_ms)
        tolerance == Max(expected_ms, 10 * SCHEDULE_MIN_TOLERANCE_MS)
                        + 10 * MASTER_JITTER_MS
        err == FloatErr(current_ts) - FloatErr(last_ts) - FloatErr(expected_ms)
    IN IF apart # tolerance THEN apart > tolerance
       ELSE (IF observed_ms > expected_ms THEN err ELSE 0 - err)
                > FloatErr(SCHEDULE_MIN_TOLERANCE_MS)

\* counter[k] += 1 for every key of the set, on a defaultdict of counters
BumpAll(counter, keys) ==
    IF keys = {} THEN counter
    ELSE [k \in DOMAIN counter \cup keys |->
             (IF k \in DOMAIN counter THEN counter[k] ELSE 0)
                 + (IF k \in keys THEN 1 ELSE 0)]

\* keys that do not look at who publishes the frame
SlaveKeysAnyPublisher(frames) ==
    {<<LdfFrames[f].publisher, f>> : f \in {g \in frames : g \in DOMAIN LdfFrames}}

\* the <<publisher, frame>> keys of the frames a slave publishes
SlaveKeys(frames) ==
    {<<LdfFrames[f].publisher, f>> :
        f \in {g \in frames : g \in DOMAIN LdfFrames /\ LdfFrames[g].publisher # MASTER}}

\* reliability_stats[publisher][frame][field] += 1 for every key of the set
BumpReliability(rel, keys, field) ==
    IF keys = {} THEN rel
    ELSE [k \in DOMAIN rel \cup keys |->
             LET old == IF k \in DOMAIN rel THEN rel[k]
                        ELSE [requests |-> 0, responses |-> 0]
             IN IF k \notin keys THEN old
                ELSE IF field = "requests" THEN [old EXCEPT !.requests = @ + 1]
                ELSE [old EXCEPT !.responses = @ + 1]]

Event(type, frame, expected) ==
    [type |-> type, frame |-> frame, expected |-> expected]

\* a reset that forgets to clear the event log of the cycle
_reset_state_keep_log(st) ==
    [st EXCEPT !.sched = [InitSchedState EXCEPT !.cycle_log = st.sched.cycle_log]]

_reset_state(st) == [st EXCEPT !.sched = InitSchedState]

_log_cycle_event(st, ev) == [st EXCEPT !.sched.cycle_log = Append(@, ev)]

_finalize_cycle(st, status) ==
    IF Falsy(st.sched.cycle_start_timestamp) THEN _reset_state(st)
    ELSE LET act == st.sched.active_schedules
             rec == [schedule_name |-> IF Len(act) = 1 THEN act[1] ELSE "Ambiguous",
                     status |-> status,
                     events |-> st.sched.cycle_log,
                     had_timing_errors |-> st.sched.has_timing_errors]
         IN _reset_state(IF st.sched.cycle_log # <<>>
                         THEN [st EXCEPT !.cycles = Append(@, rec)]
                         ELSE st)

check_and_finalize_if_complete(st, schedules) ==
    LET act == st.sched.active_schedules
    IN IF Len(act) = 1 /\ st.sched.current_index >= Len(schedules[act[1]])
       THEN _finalize_cycle(_log_cycle_event(st, Event("Cycle Completed", "", {})),
                            "Completed")
       ELSE st

\* candidates are the tables that hold the frame in any slot
StartOrIntrusionAnySlot(st, schedules, name, ts) ==
    LET candidate_schedules ==
            {n \in DOMAIN schedules :
                \E i \in DOMAIN schedules[n] : schedules[n][i].frame_name = name}
    IN IF candidate_schedules # {}
       THEN check_and_finalize_if_complete(
                _log_cycle_event(
                    [st EXCEPT !.sched.active_schedules = SortedNames(candidate_schedules),
                               !.sched.current_index = 1,
                               !.sched.last_event_timestamp = ts,
                               !.sched.cycle_start_timestamp = ts],
                    Event("Cycle Start", name, {})),
                schedules)
       ELSE [st EXCEPT !.global_errors =
                Append(@, [type |-> "Intrusion Frame", frame_name |-> name])]

\* only the first of the candidate tables enters active_schedules
StartOrIntrusionFirstCandidate(st, schedules, name, ts) ==
    LET candidate_schedules ==
            {n \in DOMAIN schedules :
                schedules[n] # <<>> /\ schedules[n][1].frame_name = name}
    IN IF candidate_schedules # {}
       THEN check_and_finalize_if_complete(
                _log_cycle_event(
                    [st EXCEPT !.sched.active_schedules =
                                   <<SortedNames(candidate_schedules)[1]>>,
                               !.sched.current_index = 1,
                               !.sched.last_event_timestamp = ts,
                               !.sched.cycle_start_timestamp = ts],
                    Event("Cycle Start", name, {})),
                schedules)
       ELSE [st EXCEPT !.global_errors =
                Append(@, [type |-> "Intrusion Frame", frame_name |-> name])]

\* the branch taken when active_schedules is empty
StartOrIntrusion(st, schedules, name, ts) ==
    LET candidate_schedules ==
            {n \in DOMAIN schedules :
                schedules[n] # <<>> /\ schedules[n][1].frame_name = name}
    IN IF candidate_schedules # {}
       THEN check_and_finalize_if_complete(
                _log_cycle_event(
                    [st EXCEPT !.sched.active_schedules = SortedNames(candidate_schedules),
                               !.sched.current_index = 1,
                               !.sched.last_event_timestamp = ts,
                               !.sched.cycle_start_timestamp = ts],
                    Event("Cycle Start", name, {})),
                schedules)
       ELSE [st EXCEPT !.global_errors =
                Append(@, [type |-> "Intrusion Frame", frame_name |-> name])]

\* an abort that returns without looking at the record again
AdvanceOrAbortNoReevaluate(st, schedules, name, ts) ==
    LET act == st.sched.active_schedules
        current_idx == st.sched.current_index
        open == {i \in DOMAIN act : current_idx < Len(schedules[act[i]])}
        expected_frames == {schedules[act[i]][current_idx + 1].frame_name : i \in open}
        potential_matches ==
            {act[i] : i \in {j \in open :
                        schedules[act[j]][current_idx + 1].frame_name = name}}
        late == {n \in potential_matches :
                    TimingViolation(ts, st.sched.last_event_timestamp,
                                    schedules[n][current_idx + 1].delay_ms)}
    IN IF expected_frames = {}
       THEN _finalize_cycle(st, "Aborted")
       ELSE IF name \in expected_frames
       THEN check_and_finalize_if_complete(
                [st EXCEPT !.sched.has_timing_errors = @ \/ late # {},
                           !.sched.active_schedules = SortedNames(potential_matches),
                           !.sched.current_index = @ + 1,
                           !.sched.last_event_timestamp = ts],
                schedules)
       ELSE _finalize_cycle(
                _log_cycle_event(st, Event("Sequence Mismatch", name, expected_frames)),
                "Aborted")

\* a match that advances the cursor without dropping the tables that do not match
AdvanceOrAbortNoPrune(st, schedules, name, ts) ==
    LET act == st.sched.active_schedules
        current_idx == st.sched.current_index
        open == {i \in DOMAIN act : current_idx < Len(schedules[act[i]])}
        expected_frames == {schedules[act[i]][current_idx + 1].frame_name : i \in open}
    IN IF expected_frames = {}
       THEN StartOrIntrusion(_finalize_cycle(st, "Aborted"), schedules, name, ts)
       ELSE IF name \in expected_frames
       THEN check_and_finalize_if_complete(
                [st EXCEPT !.sched.current_index = @ + 1,
                           !.sched.last_event_timestamp = ts],
                schedules)
       ELSE StartOrIntrusion(
                _finalize_cycle(
                    _log_cycle_event(st, Event("Sequence Mismatch", name, expected_frames)),
                    "Aborted"),
                schedules, name, ts)

\* the branch taken when a cycle is under way
AdvanceOrAbort(st, schedules, name, ts) ==
    LET act == st.sched.active_schedules
        current_idx == st.sched.current_index
        open == {i \in DOMAIN act : current_idx < Len(schedules[act[i]])}
        expected_frames == {schedules[act[i]][current_idx + 1].frame_name : i \in open}
        potential_matches ==
            {act[i] : i \in {j \in open :
                        schedules[act[j]][current_idx + 1].frame_name = name}}
        late == {n \in potential_matches :
                    TimingViolation(ts, st.sched.last_event_timestamp,
                                    schedules[n][current_idx + 1].delay_ms)}
        requested == [st EXCEPT !.reliability =
                         BumpReliability(@, SlaveKeys(expected_frames), "requests")]
    IN IF expected_frames = {}
       THEN StartOrIntrusion(_finalize_cycle(st, "Aborted"), schedules, name, ts)
       ELSE IF name \in expected_frames
       THEN check_and_finalize_if_complete(
                [requested EXCEPT
                    !.reliability = BumpReliability(@, SlaveKeys({name}), "responses"),
                    !.timing_mismatches =
                        BumpAll(@, {<<n, current_idx>> : n \in late}),
                    !.sched.has_timing_errors = @ \/ late # {},
                    !.sched.active_schedules = SortedNames(potential_matches),
                    !.sched.current_index = @ + 1,
                    !.sched.last_event_timestamp = ts],
                schedules)
       ELSE StartOrIntrusion(
                _finalize_cycle(
                    _log_cycle_event(requested,
                                     Event("Sequence Mismatch", name, expected_frames)),
                    "Aborted"),
                schedules, name, ts)

\* st = [sched, cycles, global_errors, timing_mismatches, reliability]
validate_schedule_order_and_presence(e, st, schedules) ==
    IF e.type \notin {"Rx", "TransmErr", "RcvError"} THEN st
    ELSE IF ldf_id_to_frame(e.frame_id_int) = NoFrame THEN st
    ELSE IF st.sched.active_schedules = <<>>
    THEN StartOrIntrusion(st, schedules, ldf_id_to_frame(e.frame_id_int), e.timestamp)
    ELSE AdvanceOrAbort(st, schedules, ldf_id_to_frame(e.frame_id_int), e.timestamp)

(* ------------------------------------------------------------------ *)
(* Gateway event capture                                                *)
(* ------------------------------------------------------------------ *)
\* a capture that does not look at the network cycle
gateway_capture_any_state(raised, state) == ~raised

\* the capture block runs if the loop body got that far and the network cycle
\* is Active: config['enable_gateway_validation'] and network_cycle_state.active
gateway_capture_enabled(raised, state) == ~raised /\ state.active

\* one direction of the capture, mappings k..Len(GatewayMap) of the lookup list;
\* st = [raised, events, results]; an IndexError of extract_signal_value leaves
\* the loop with what was appended so far
RECURSIVE CaptureFrom(_, _, _, _)
CaptureFrom(e, dir, k, st) ==
    IF k > Len(GatewayMap) \/ st.raised THEN st
    ELSE LET m == GatewayMap[k]
             net == IF dir = "source" THEN m.source_network ELSE m.target_network
             id == IF dir = "source" THEN m.source_id ELSE m.target_id
             sig == IF dir = "source" THEN m.source_sig ELSE m.target_sig
             raw == extract_signal_value(e.data, sig.start_bit, sig.length,
                                         sig.is_big_endian, sig.is_signed)
         IN IF net # e.channel \/ id # e.frame_id_int \/ e.data = <<>>
            THEN CaptureFrom(e, dir, k + 1, st)
            ELSE IF ~raw.ok THEN [st EXCEPT !.raised = TRUE]
            ELSE CaptureFrom(e, dir, k + 1,
                    [st EXCEPT
                        !.events[m.map_index] = Append(@, <<e.timestamp, raw.val>>),
                        !.results[m.map_index].has_mapping_info = TRUE])

(* ------------------------------------------------------------------ *)
(* Signal statistics                                                    *)
(* ------------------------------------------------------------------ *)
\* the physical range the bus description declares for a signal: the
\* [min|max] of the LDF encoding of Sig and of the DBC SG_ line of B
LdfEncodingRange == [min_value |-> 0, max_value |-> 100]
DbcSgRange == [min_value_defined |-> 0, max_value_defined |-> 300]

\* the LDFSignal of a frame as parse_ldf builds it: factor, offset, logical
\* map and encoding type come from the encoding details, the range of the
\* details is not handed over and min_value/max_value keep their default
LdfFrameSignal(base, encoding_type) ==
    [name |-> base.name, start_bit |-> base.start_bit, length |-> base.length,
     is_big_endian |-> FALSE, is_signed |-> FALSE,
     factor |-> base.factor, offset |-> base.offset,
     logical_map |-> base.logical_map, encoding_type |-> encoding_type,
     min_value |-> None, max_value |-> None]

\* the DBCSignal of a message as parse_dbc_single_file builds it: the range of
\* the SG_ line is stored as min_value_defined/max_value_defined; the class
\* has no encoding_type, min_value or max_value
DbcMessageSignal(base, min_defined, max_defined) ==
    [name |-> base.name, start_bit |-> base.start_bit, length |-> base.length,
     is_big_endian |-> base.is_big_endian, is_signed |-> base.is_signed,
     factor |-> base.factor, offset |-> base.offset, logical_map |-> {},
     min_value_defined |-> min_defined, max_value_defined |-> max_defined]

\* getattr(signal_info, field, default)
GetAttr(sig, field, default) ==
    IF field \in DOMAIN sig THEN sig[field] ELSE default

\* frame_def.signals of the record's frame, each as the signal_info that
\* update_signal_stats looks up by name; <<>> when there is no frame_def
FrameSignals(e) ==
    IF e.channel = "LIN" /\ e.frame_id_int = GatewayMap[1].source_id
    THEN <<LdfFrameSignal(SigSource, "hybrid")>>
    ELSE IF e.channel \in valid_can_channels /\ e.frame_id_int = GW_TARGET_CAN_ID
    THEN <<DbcMessageSignal(SigTarget, DbcSgRange.min_value_defined,
                            DbcSgRange.max_value_defined)>>
    ELSE <<>>

\* a lookup that never finds the key
StatsAtFresh(stats, key) ==
    [min_phys |-> None, max_phys |-> None, first_ts |-> None, count |-> 0]

InitSignalStats == [min_phys |-> None, max_phys |-> None, first_ts |-> None, count |-> 0]

StatsAt(stats, key) == IF key \in DOMAIN stats THEN stats[key] ELSE InitSignalStats

RangeCountAt(range_errors, key) ==
    IF key \in DOMAIN range_errors THEN range_errors[key].out_of_range_count ELSE 0

\* one signal of the frame; st = [stats, range_errors]
UpdateOneSignal(e, sig, st) ==
    LET required_bytes == (sig.start_bit + sig.length + 7) \div 8
        raw == extract_signal_value(e.data, sig.start_bit, sig.length,
                                    sig.is_big_endian, sig.is_signed)
        physical_value == raw.val * sig.factor + sig.offset
        encoding_type == GetAttr(sig, "encoding_type", "physical")
        min_val == GetAttr(sig, "min_value", None)
        max_val == GetAttr(sig, "max_value", None)
        key == <<e.channel, sig.name>>
        old == StatsAt(st.stats, key)
        out_of_range == /\ encoding_type \in {"physical", "hybrid"}
                        /\ min_val # None /\ max_val # None
                        /\ (physical_value < min_val \/ physical_value > max_val)
        first == [min_phys |-> physical_value, max_phys |-> physical_value,
                  first_ts |-> e.timestamp, count |-> 0]
        seeded == IF old.count = 0 THEN first ELSE old
    IN IF sig.length = 0 \/ Len(e.data) < required_bytes \/ ~raw.ok THEN st
       ELSE [stats |->
                (key :> [seeded EXCEPT
                            !.min_phys = IF physical_value < @ THEN physical_value ELSE @,
                            !.max_phys = IF physical_value > @ THEN physical_value ELSE @,
                            !.count = @ + 1]) @@ st.stats,
             range_errors |->
                IF out_of_range
                THEN (key :> [out_of_range_count |->
                                 RangeCountAt(st.range_errors, key) + 1])
                         @@ st.range_errors
                ELSE st.range_errors]

RECURSIVE SignalLoop(_, _, _, _)
SignalLoop(e, sigs, k, st) ==
    IF k > Len(sigs) THEN st
    ELSE SignalLoop(e, sigs, k + 1, UpdateOneSignal(e, sigs[k], st))

\* update_signal_stats under the caller's guard "frame_def and entry.data"
update_signal_stats(e, st) ==
    IF FrameSignals(e) = <<>> \/ e.data = <<>> THEN st
    ELSE SignalLoop(e, FrameSignals(e), 1, st)

(* ------------------------------------------------------------------ *)
(* Post-pass gateway correlation                                        *)
(* ------------------------------------------------------------------ *)
\* sign extension and scaling of the "physical" comparison
Physical(raw, sig) ==
    LET processed == IF sig.is_signed /\ sig.length > 0 /\ Bit(raw, sig.length - 1) = 1
                     THEN raw - Pow2(sig.length) ELSE raw
    IN processed * sig.factor + sig.offset

\* compare_gateway_values: <<match, comparison_type>>
compare_gateway_values(source_val_raw, target_val_raw, src, tgt) ==
    LET src_has_logic == source_val_raw \in src.logical_map
        tgt_has_logic == target_val_raw \in tgt.logical_map
    IN IF src_has_logic /\ tgt_has_logic
       THEN <<source_val_raw = target_val_raw, "raw_logical">>
       ELSE IF ~src_has_logic /\ ~tgt_has_logic
       THEN <<Physical(source_val_raw, src) = Physical(target_val_raw, tgt), "physical">>
       ELSE <<FALSE, "hybrid_mismatch">>

\* while source_pointer < n and sources[source_pointer].ts < limit: advance
RECURSIVE SkipStale(_, _, _)
SkipStale(sources, ptr, limit) ==
    IF ptr <= Len(sources) /\ sources[ptr][1] < limit
    THEN SkipStale(sources, ptr + 1, limit)
    ELSE ptr

\* first candidate only: the scan stops at the first event before tt
BestCandidateFirst(sources, i, tt, best) ==
    IF i > Len(sources) \/ sources[i][1] >= tt THEN best ELSE i

\* the scan from the pointer: the last event before the first one with ts >= tt;
\* 0 when there is none
RECURSIVE BestCandidate(_, _, _, _)
BestCandidate(sources, i, tt, best) ==
    IF i > Len(sources) \/ sources[i][1] >= tt THEN best
    ELSE BestCandidate(sources, i + 1, tt, i)

AddLatency(ls, latency) ==
    [count |-> ls.count + 1, sum |-> ls.sum + latency,
     min |-> IF ls.min = None \/ latency < ls.min THEN latency ELSE ls.min,
     max |-> IF ls.max = None \/ latency > ls.max THEN latency ELSE ls.max]

\* comparisons counted only when a source candidate was found
RecordComparisonFoundOnly(res, sources, target, b, m) ==
    IF b = 0 THEN [res EXCEPT !.mismatches_timing = @ + 1]
    ELSE [res EXCEPT !.comparisons = @ + 1, !.matches = @ + 1]

\* the bookkeeping of one target event; b = index of the source candidate, 0 = none
RecordComparison(res, sources, target, b, m) ==
    LET counted == [res EXCEPT !.comparisons = @ + 1]
        tt == target[1]
        cmp == compare_gateway_values(sources[b][2], target[2],
                                      m.source_sig, m.target_sig)
    IN IF b = 0 THEN [counted EXCEPT !.mismatches_timing = @ + 1]
       ELSE LET timed == IF tt - sources[b][1] >= 0
                         THEN [counted EXCEPT !.latency_stats =
                                   AddLatency(@, tt - sources[b][1])]
                         ELSE counted
            IN IF cmp[1] THEN [timed EXCEPT !.matches = @ + 1]
               ELSE IF cmp[2] = "hybrid_mismatch"
               THEN [timed EXCEPT !.mismatches_type = @ + 1]
               ELSE [timed EXCEPT !.mismatches_value = @ + 1]

\* the loop over the target events k..Len(targets) of one mapping
RECURSIVE Correlate(_, _, _, _, _, _)
Correlate(sources, targets, m, k, ptr, res) ==
    IF k > Len(targets) THEN res
    ELSE LET tt == targets[k][1]
             p == SkipStale(sources, ptr, tt - DEFAULT_GATEWAY_TOLERANCE_MS)
             b == BestCandidate(sources, p, tt, 0)
         IN Correlate(sources, targets, m, k + 1, p,
                      RecordComparison(res, sources, targets[k], b, m))

MappingOf(idx) == GatewayMap[CHOOSE i \in DOMAIN GatewayMap : GatewayMap[i].map_index = idx]

_post_process_gateway_correlation(results, source_events, target_events) ==
    [idx \in MapIdx |->
        IF source_events[idx] = <<>> \/ target_events[idx] = <<>>
           \/ ~results[idx].has_mapping_info
        THEN results[idx]
        ELSE Correlate(source_events[idx], target_events[idx], MappingOf(idx),
                       1, 1, results[idx])]

(* ------------------------------------------------------------------ *)
(* End of log                                                           *)
(* ------------------------------------------------------------------ *)
\* a finalization that counts an incomplete cycle whether one is open or not
finalize_network_cycle_stats_unguarded(st) ==
    [state |-> [st.state EXCEPT !.active = FALSE,
                               !.first_master_found = FALSE,
                               !.problem_flags = {}],
     summary |-> [st.summary EXCEPT
                     !.cycles_incomplete = @ + 1,
                     !.cycles_no_master_response =
                         IF st.state.first_master_found THEN @ ELSE @ + 1,
                     !.example_problem_cycle =
                         KeepExample(@, st.state.problem_flags
                                           \cup {"Incomplete Cycle"}
                                           \cup NoMasterFlag(st.state))]]

\* a finalization that never looks for the master's frame
finalize_network_cycle_stats_incomplete_only(st) ==
    IF ~st.state.active THEN st
    ELSE [state |-> [st.state EXCEPT !.active = FALSE,
                                    !.first_master_found = FALSE,
                                    !.problem_flags = {}],
          summary |-> [st.summary EXCEPT
                          !.cycles_incomplete = @ + 1,
                          !.example_problem_cycle =
                              KeepExample(@, st.state.problem_flags
                                                \cup {"Incomplete Cycle"})]]

\* finalize_network_cycle_stats: st = [state, summary]
finalize_network_cycle_stats(st) ==
    IF ~st.state.active THEN st
    ELSE [state |-> [st.state EXCEPT !.active = FALSE,
                                    !.first_master_found = FALSE,
                                    !.problem_flags = {}],
          summary |-> [st.summary EXCEPT
                          !.cycles_incomplete = @ + 1,
                          !.cycles_no_master_response =
                              IF st.state.first_master_found THEN @ ELSE @ + 1,
                          !.example_problem_cycle =
                              KeepExample(@, st.state.problem_flags
                                                \cup {"Incomplete Cycle"}
                                                \cup NoMasterFlag(st.state))]]

(* ------------------------------------------------------------------ *)
(* The record loop of process_log_file                                  *)
(* ------------------------------------------------------------------ *)
\* one iteration of "for entry in parse_log(log_path)"
ProcessEntry(e) ==
    /\ pc = "run"
    /\ nlog' = nlog + 1
    /\ entry' = e
    /\ UNCHANGED <<ldf_schedules, call_args, call_result>>
    /\ UNCHANGED sync_errors        \* no validator of the loop writes the bucket
    /\ log_info' = [log_info EXCEPT
                        !.start_time = IF log_info.start_time = None
                                       THEN e.timestamp ELSE log_info.start_time,
                        !.end_time = e.timestamp]
    /\ lin_bus_load' = account_bus_load(e, log_info'.start_time, lin_bus_load)
    /\ IF IsCan(e.channel) /\ e.channel \notin valid_can_channels
       THEN UNCHANGED <<pc, nc_state, nc_summary, sched_state, cycles, global_errors,
                        checksum_errors, gateway_source_events,
                        gateway_target_events, gateway_results,
                        foreign_ids, dlc_errors, parity_errors,
                        schedule_timing_mismatches, slave_reliability,
                        logger_cycle_state, logger_activity_periods,
                        signal_stats, signal_range_errors>>
       ELSE LET nc == update_network_cycle_state(
                          e, [state |-> nc_state, summary |-> nc_summary])
                lg == update_logger_cycle_state(
                          e, [state |-> logger_cycle_state,
                              periods |-> logger_activity_periods])
                idl == validate_lin_ids_and_dlcs(
                           e, [foreign |-> foreign_ids, dlc |-> dlc_errors])
                ck == IF e.channel = "LIN"
                      THEN validate_lin_checksum(e, checksum_errors)
                      ELSE [raised |-> FALSE, errors |-> checksum_errors]
                st0 == [sched |-> sched_state, cycles |-> cycles,
                        global_errors |-> global_errors,
                        timing_mismatches |-> schedule_timing_mismatches,
                        reliability |-> slave_reliability]
                sc == IF e.channel = "LIN" /\ ~ck.raised /\ nc.state.active
                      THEN validate_schedule_order_and_presence(e, st0, ldf_schedules)
                      ELSE st0
                capture == gateway_capture_enabled(ck.raised, nc.state)
                gs == IF capture
                      THEN CaptureFrom(e, "source", 1,
                               [raised |-> FALSE, events |-> gateway_source_events,
                                results |-> gateway_results])
                      ELSE [raised |-> FALSE, events |-> gateway_source_events,
                            results |-> gateway_results]
                gt == IF capture /\ ~gs.raised
                      THEN CaptureFrom(e, "target", 1,
                               [raised |-> FALSE, events |-> gateway_target_events,
                                results |-> gs.results])
                      ELSE [raised |-> FALSE, events |-> gateway_target_events,
                            results |-> gs.results]
                sg == IF ~ck.raised
                      THEN update_signal_stats(
                               e, [stats |-> signal_stats,
                                   range_errors |-> signal_range_errors])
                      ELSE [stats |-> signal_stats,
                            range_errors |-> signal_range_errors]
            IN /\ nc_state' = nc.state
               /\ signal_stats' = sg.stats
               /\ signal_range_errors' = sg.range_errors
               /\ nc_summary' = nc.summary
               /\ logger_cycle_state' = lg.state
               /\ logger_activity_periods' = lg.periods
               /\ foreign_ids' = idl.foreign
               /\ dlc_errors' = idl.dlc
               /\ parity_errors' = validate_id_parity(e, parity_errors)
               /\ checksum_errors' = ck.errors
               /\ sched_state' = sc.sched
               /\ cycles' = sc.cycles
               /\ global_errors' = sc.global_errors
               /\ schedule_timing_mismatches' = sc.timing_mismatches
               /\ slave_reliability' = sc.reliability
               /\ gateway_source_events' = gs.events
               /\ gateway_target_events' = gt.events
               /\ gateway_results' = gt.results
               /\ pc' = IF ck.raised \/ gs.raised \/ gt.raised THEN "raised" ELSE "run"

\* the log is exhausted: post-pass correlation and _finalize_statistics
EndOfLog ==
    /\ pc = "run"
    /\ pc' = "done"
    /\ gateway_results' = _post_process_gateway_correlation(
                              gateway_results, gateway_source_events,
                              gateway_target_events)
    /\ LET nc == finalize_network_cycle_stats(
                     [state |-> nc_state, summary |-> nc_summary])
       IN nc_state' = nc.state /\ nc_summary' = nc.summary
    /\ log_info' = [log_info EXCEPT !.duration = LogDuration(log_info)]
    /\ lin_bus_load' = finalize_bus_load(flush_bus_load(lin_bus_load, log_info),
                                         LogDuration(log_info))
    /\ UNCHANGED <<nlog, entry, ldf_schedules, sched_state, cycles, global_errors,
                   checksum_errors, gateway_source_events, gateway_target_events,
                   foreign_ids, dlc_errors, parity_errors, sync_errors,
                   schedule_timing_mismatches, slave_reliability,
                   logger_cycle_state, logger_activity_periods,
                   signal_stats, signal_range_errors,
                   call_args, call_result>>

\* a function called on its own, outside the record loop: pc goes from "call"
\* to "returned" and call_result holds the value returned
InitCall(args) ==
    /\ pc = "call"
    /\ call_args \in args
    /\ call_result = <<>>
    /\ ldf_schedules = <<>>
    /\ EmptyLogStats

Return(r) ==
    /\ pc = "call"
    /\ pc' = "returned"
    /\ call_result' = r
    /\ UNCHANGED <<nlog, entry, ldf_schedules, nc_state, nc_summary, sched_state,
                   cycles, global_errors, checksum_errors, gateway_source_events,
                   gateway_target_events, gateway_results, log_info, lin_bus_load,
                   foreign_ids, dlc_errors, parity_errors, sync_errors,
                   schedule_timing_mismatches, slave_reliability,
                   logger_cycle_state, logger_activity_periods,
                   signal_stats, signal_range_errors, call_args>>

(* ------------------------------------------------------------------ *)
(* Specifications: the same loop over different families of records     *)
(* ------------------------------------------------------------------ *)
\* schedule adherence: LIN records of the scheduled frames and the sleep command
SchedTs == {0, 10}
SchedEntries ==
    LinFrameEntries({"Rx", "Tx"}, {1, 2}, {<<5, 250>>}, {None}, {NoCsm}, SchedTs)
    \cup LinFrameEntries({"Rx"}, {SLEEP_CMD_ID}, {<<0>>}, {None}, {NoCsm}, SchedTs)
    \cup LinErrorEntries({2}, SchedTs)

Init == InitLogStats /\ ldf_schedules \in ScheduleConfigs

Step == \E e \in SchedEntries : nlog < MaxLog /\ ProcessEntry(e)

Next == Step \/ EndOfLog

Spec == Init /\ [][Next]_vars

\* network cycle: wake / sleep events, LIN traffic, CAN frames, and the
\* logger's own start and sleep events (channel 0) at two more timestamps
NcTs == {10}
NcEntries ==
    LinFrameEntries({"Rx", "Tx"}, {1, 2, SLEEP_CMD_ID}, {<<0>>, <<1>>},
                    {None}, {NoCsm}, NcTs)
    \cup LinErrorEntries({1, None}, NcTs)
    \cup SpikeEntries(NcTs)
    \cup SleepModeEntries({0, 1}, {{WAKE}, {SLEEP}, {WAKE, SLEEP}, {START}}, NcTs)
    \cup SleepModeEntries({0}, {{START}, {SLEEP}, {"waking up"}}, {0, 25})
    \cup CanEntries({"CAN1", "CAN2"}, {SLEEP_CMD_ID}, {<<0>>, <<1>>}, NcTs)

InitOne ==
    /\ InitLogStats
    /\ ldf_schedules = [n \in {"T"} |-> <<Slot("F1", 10), Slot("F2", 10)>>]

StepNc == \E e \in NcEntries : nlog < MaxNcLog /\ ProcessEntry(e)

NextNc == StepNc \/ EndOfLog

SpecNc == InitOne /\ [][NextNc]_vars

\* checksum validation: LIN Rx records with every combination of data, declared
\* checksum and CSM word; 66 = 0x42 is the protected identifier of frame id 2
CkTs == {10}
CkEntries ==
    LinFrameEntries({"Rx"}, {2, 66}, {<<>>, <<5, 250>>}, {None, 0, 189},
                    {NoCsm, "Classic", "Enhanced", "Foo"}, CkTs)

StepCk == \E e \in CkEntries : nlog < MaxCkLog /\ ProcessEntry(e)

NextCk == StepCk \/ EndOfLog

SpecCk == InitOne /\ [][NextCk]_vars

\* gateway: source frames on LIN, target frames on CAN1 (one shorter than the
\* layout of the mapped signal)
GwSourceTs == {0, 10}
GwTargetTs == {10, 22, 45}
GwEntries ==
    LinFrameEntries({"Rx"}, {2}, {<<1>>, <<5>>}, {None}, {NoCsm}, GwSourceTs)
    \cup CanEntries({"CAN1"}, {GW_TARGET_CAN_ID},
                    {<<0, 1>>, <<0, 2>>, <<0, 5>>}, GwTargetTs)
    \cup CanEntries({"CAN1"}, {GW_TARGET_CAN_ID}, {<<2>>}, {10})

StepGw == \E e \in GwEntries : nlog < MaxGwLog /\ ProcessEntry(e)

NextGw == StepGw \/ EndOfLog

SpecGw == InitOne /\ [][NextGw]_vars

\* signal statistics: LIN frame F2 with Sig inside and outside the range of
\* its encoding, CAN message 0x100 with B inside and outside the range of its
\* SG_ line and with too few bytes, and records of frames without signals
SigTs == {0, 10}
SigEntries ==
    LinFrameEntries({"Rx"}, {2}, {<<0, 0>>, <<5, 250>>, <<200, 0>>}, {None}, {NoCsm}, SigTs)
    \cup LinFrameEntries({"Rx"}, {1}, {<<5, 250>>}, {None}, {NoCsm}, SigTs)
    \cup LinErrorEntries({2}, SigTs)
    \cup CanEntries({"CAN1"}, {GW_TARGET_CAN_ID},
                    {<<0, 1>>, <<0, 7, 0>>, <<1, 144, 0>>}, SigTs)

StepSig == \E e \in SigEntries : nlog < MaxSigLog /\ ProcessEntry(e)

NextSig == StepSig \/ EndOfLog

SpecSig == InitOne /\ [][NextSig]_vars

\* bus load: LIN frames with and without a measured length, error lines, a
\* spike and a CAN frame, with timestamps in any order
BlTs == {0, 5, 10}
BlEntries ==
    LinFrameEntries({"Rx"}, {1}, {<<5, 250>>}, {None}, {NoCsm}, BlTs)
    \cup { WithFullTime(e, 124) :
              e \in LinFrameEntries({"Rx"}, {2}, {<<5, 250>>}, {None}, {NoCsm}, BlTs) }
    \cup LinErrorEntries({2}, BlTs)
    \cup SpikeEntries(BlTs)
    \cup CanEntries({"CAN1"}, {GW_TARGET_CAN_ID}, {<<0, 1>>}, BlTs)

StepBl == \E e \in BlEntries : nlog < MaxBlLog /\ ProcessEntry(e)

NextBl == StepBl \/ EndOfLog

SpecBl == InitOne /\ [][NextBl]_vars

\* ID / DLC: known frame F1 (DLC 2) and the unknown identifier 0x0A in both
\* spellings, with 1, 2 or 3 data bytes, timestamps in any order
IdTs == {0, 10}
IdEntries ==
    LinFrameEntries({"Rx", "Tx"}, {1, 10}, {<<5>>, <<5, 250>>}, {None}, {NoCsm}, IdTs)
    \cup LinFrameEntries({"RX"}, {1}, {<<1, 2, 3>>}, {None}, {NoCsm}, IdTs)
    \cup { LowerCaseId(e) :
              e \in LinFrameEntries({"Rx"}, {10}, {<<5, 250>>}, {None}, {NoCsm}, IdTs) }
    \cup LinErrorEntries({10}, IdTs)

StepId == \E e \in IdEntries : nlog < MaxIdLog /\ ProcessEntry(e)

NextId == StepId \/ EndOfLog

SpecId == InitOne /\ [][NextId]_vars

\* parity: one LIN record with any identifier field 0x00..0xFF, or an error line
PidTs == {10}
PidEntries ==
    LinFrameEntries({"Rx"}, 0..255, {<<5, 250>>}, {None}, {NoCsm}, PidTs)
    \cup LinErrorEntries({67, None}, PidTs)

StepPid == \E e \in PidEntries : nlog < MaxPidLog /\ ProcessEntry(e)

NextPid == StepPid \/ EndOfLog

SpecPid == InitOne /\ [][NextPid]_vars

\* calculate_checksum on its own: data of 0..MaxDataLen bytes, classic
\* (pid None) or enhanced with a PID inside or outside 0..0xFF
RECURSIVE SeqsUpTo(_, _)
SeqsUpTo(S, n) ==
    IF n = 0 THEN {<<>>}
    ELSE LET shorter == SeqsUpTo(S, n - 1)
         IN shorter \cup {Append(d, b) : d \in {x \in shorter : Len(x) = n - 1}, b \in S}

ChecksumArgs ==
    [data_bytes : SeqsUpTo({0, 1, 255}, MaxDataLen),
     pid_for_enhanced : {None, 0, 1, 66, 255, 256}]

CallChecksum == Return(calculate_checksum(call_args.data_bytes, call_args.pid_for_enhanced))

NextChecksum == CallChecksum

SpecChecksum == InitCall(ChecksumArgs) /\ [][NextChecksum]_vars

\* group_equivalent_schedules on its own, then again on the unique set it
\* returned; call_args is the list of the arguments of the calls made so far
GroupTables ==
    {TableList(<<Slot("F1", 10), Slot("F2", 10)>>), TableList(<<Slot("F1", 10)>>),
     TableList(<<Slot("F2", 10), Slot("F1", 10)>>), TableList(<<>>), NotAList}

GroupArgs ==
    UNION {{<<s>> : s \in [names -> GroupTables]} : names \in SUBSET {"T", "T1", "T2"}}

CallGroup == Return(group_equivalent_schedules(call_args[1]))

Regroup ==
    /\ pc = "returned"
    /\ pc' = "regrouped"
    /\ call_args' = Append(call_args, call_result.unique)
    /\ call_result' = group_equivalent_schedules(call_result.unique)
    /\ UNCHANGED <<nlog, entry, ldf_schedules, nc_state, nc_summary, sched_state,
                   cycles, global_errors, checksum_errors, gateway_source_events,
                   gateway_target_events, gateway_results, log_info, lin_bus_load,
                   foreign_ids, dlc_errors, parity_errors, sync_errors,
                   schedule_timing_mismatches, slave_reliability,
                   logger_cycle_state, logger_activity_periods,
                   signal_stats, signal_range_errors>>

NextGroup == CallGroup \/ Regroup

SpecGroup == InitCall(GroupArgs) /\ [][NextGroup]_vars

\* resolution of a gateway map of one mapping whose endpoints may or may not
\* exist on their networks
GwEndpoints ==
    {"LIN", "CAN1", "CAN2"} \X {"F2", "Fn", "Msg", " Msg", "Nope"}
                            \X {"Sig", "Sig ", "Sn", "B", "Nope"}

GatewayMapArgs ==
    {<<[source_network |-> s[1], source_message |-> s[2], source_signal |-> s[3],
        target_network |-> t[1], target_message |-> t[2], target_signal |-> t[3]]>> :
        s \in GwEndpoints, t \in GwEndpoints}

CallRegister ==
    Return(BuildGatewayLookup(call_args, 1, [source |-> {}, target |-> {}]))

NextRegister == CallRegister

SpecRegister == InitCall(GatewayMapArgs) /\ [][NextRegister]_vars

\* parse_dbcs_for_channel on two DBC files of one channel, each with or
\* without a Baudrate attribute and with zero, one or two messages
DbcBauds == {None, 250000, 500000}
DbcFirstFiles ==
    {DbcFile(m, b) : b \in DbcBauds,
        m \in {<<>>, <<DbcMsg(256, "M1", {"A"}, 8)>>,
               <<DbcMsg(256, "M1", {"A"}, 8), DbcMsg(257, "M2", {"A2"}, 8)>>}}
DbcSecondFiles ==
    {DbcFile(m, b) : b \in DbcBauds,
        m \in {<<>>, <<DbcMsg(512, "N1", {"X"}, 8)>>, <<DbcMsg(256, "M1x", {"Z"}, 4)>>,
               <<DbcMsg(512, "N1", {"X"}, 8), DbcMsg(513, "N2", {"Y"}, 8)>>}}

DbcArgs == {<<a, b>> : a \in DbcFirstFiles, b \in DbcSecondFiles}

CallParseDbcs == Return(parse_dbcs_for_channel(call_args))

NextParseDbcs == CallParseDbcs

SpecParseDbcs == InitCall(DbcArgs) /\ [][NextParseDbcs]_vars

\* a gateway map file of up to MaxMapLen elements: mappings that resolve in
\* either direction, an element that is no dict, a dict without
\* target_signal and a dict with an unknown source network
MapLinToCan ==
    [source_network |-> "LIN", source_message |-> "F2", source_signal |-> "Sig",
     target_network |-> "CAN1", target_message |-> "Msg", target_signal |-> "B"]
MapCanToLin ==
    [source_network |-> "CAN1", source_message |-> "Msg", source_signal |-> "B",
     target_network |-> "LIN", target_message |-> "F2", target_signal |-> "Sig"]
RawElements ==
    {RawDict(MapLinToCan), RawDict(MapCanToLin), RawNotDict,
     RawDict([k \in required_keys \ {"target_signal"} |-> MapLinToCan[k]]),
     RawDict([MapLinToCan EXCEPT !.source_network = "FLEXRAY"])}

LoadMapArgs == UNION {[1..n -> RawElements] : n \in 0..MaxMapLen}

CallLoadMap == Return(LoadAndRegister(call_args))

NextLoadMap == CallLoadMap

SpecLoadMap == InitCall(LoadMapArgs) /\ [][NextLoadMap]_vars

\* extract_signal_value on frames of up to MaxExtractLen bytes, every start
\* bit of such a frame and every length up to one bit more than it holds
ExtractBytes == {1, 180, 255}
ExtractData == UNION {[1..n -> ExtractBytes] : n \in 0..MaxExtractLen}
ExtractArgs ==
    ExtractData \X (0..(8 * MaxExtractLen)) \X (0..(8 * MaxExtractLen + 1))
                \X BOOLEAN \X BOOLEAN

CallExtract ==
    Return(extract_signal_value(call_args[1], call_args[2], call_args[3],
                                call_args[4], call_args[5]))

NextExtract == CallExtract

SpecExtract == InitCall(ExtractArgs) /\ [][NextExtract]_vars

\* one gateway pair taken through capture and comparison: each side's raw is
\* what extract_signal_value returned for the frame data, and those raws are
\* what _post_process_gateway_correlation hands to compare_gateway_values.
\* Signals are little-endian at start bit 0, 4 or 8 bits long, signed or
\* not, with factor 1 or 2 and with or without a logical value 1.
CompareSignals ==
    {[name |-> "S", start_bit |-> 0, length |-> l, is_big_endian |-> FALSE,
      is_signed |-> s, factor |-> f, offset |-> 0, logical_map |-> m] :
        l \in {4, 8}, s \in BOOLEAN, f \in {1, 2}, m \in {{}, {1}}}

CompareData == {<<0>>, <<1>>, <<2>>, <<7>>, <<15>>, <<254>>, <<255>>}

CompareArgs ==
    {[src |-> s, tgt |-> t, src_data |-> ds, tgt_data |-> dt] :
        s \in CompareSignals, t \in CompareSignals,
        ds \in CompareData, dt \in CompareData}

CapturedRaw(data, sig) ==
    extract_signal_value(data, sig.start_bit, sig.length,
                         sig.is_big_endian, sig.is_signed).val

CallCompare ==
    LET raw_source == CapturedRaw(call_args.src_data, call_args.src)
        raw_target == CapturedRaw(call_args.tgt_data, call_args.tgt)
        r == compare_gateway_values(raw_source, raw_target,
                                    call_args.src, call_args.tgt)
    IN Return([raw_source |-> raw_source, raw_target |-> raw_target,
               match |-> r[1], comparison_type |-> r[2]])

NextCompare == CallCompare

SpecCompare == InitCall(CompareArgs) /\ [][NextCompare]_vars

\* schedule tables that share leading entries: LIN Rx records of F1 and F2 at
\* 0 s, 1.000 s, 1.005 s and 1.015 s, error lines of F2, and the unscheduled
\* master request with data that is not the sleep command
TableConfigs ==
    { [n \in {"T1", "T2"} |->
          IF n = "T1" THEN <<Slot("F1", 10), Slot("F2", 10), Slot("F2", 10)>>
                      ELSE <<Slot("F1", 10), Slot("F1", 10)>>],
      [n \in {"T1", "T2"} |->
          IF n = "T1" THEN <<Slot("F1", 10)>>
                      ELSE <<Slot("F1", 10), Slot("F2", 10)>>],
      [n \in {"T1", "T2"} |->
          IF n = "T1" THEN <<Slot("F1", 10), Slot("F2", 10)>>
                      ELSE <<Slot("F1", 10), Slot("F2", 20)>>] }

TabTs == {0, 1000, 1005, 1015}
TabEntries ==
    LinFrameEntries({"Rx"}, {1, 2}, {<<5, 250>>}, {None}, {NoCsm}, TabTs)
    \cup LinErrorEntries({2}, {1005})
    \cup LinFrameEntries({"Rx"}, {SLEEP_CMD_ID}, {<<5, 250>>}, {None}, {NoCsm}, {1005})

InitTab == InitLogStats /\ ldf_schedules \in TableConfigs

StepTab == \E e \in TabEntries : nlog < MaxTabLog /\ ProcessEntry(e)

NextTab == StepTab \/ EndOfLog

SpecTab == InitTab /\ [][NextTab]_vars

(* ------------------------------------------------------------------ *)
(* Properties                                                           *)
(* ------------------------------------------------------------------ *)
\* this step is one iteration of the record loop
RecordStep == pc = "run" /\ nlog' = nlog + 1

\* the record of this step reaches the validators (no CAN channel without DBC)
Analysed == RecordStep /\ ~(IsCan(entry'.channel) /\ entry'.channel \notin valid_can_channels)

SingleTable == Cardinality(DOMAIN ldf_schedules) = 1
OnlyTable == CHOOSE n \in DOMAIN ldf_schedules : TRUE
Last(s) == s[Len(s)]

\* a LIN Rx record for the last slot Fn of the only table, F1..Fn-1 having been
\* matched in order and within tolerance since the empty cursor, network cycle Active
C1_LastSlotStep ==
    /\ Analysed /\ pc' = "run" /\ SingleTable
    /\ entry'.channel = "LIN" /\ entry'.type = "Rx" /\ nc_state'.active
    /\ LET T == ldf_schedules[OnlyTable]
           n == Len(T)
       IN /\ ldf_id_to_frame(entry'.frame_id_int) = T[n].frame_name
          /\ IF n = 1 THEN sched_state.active_schedules = <<>>
             ELSE /\ sched_state.active_schedules = <<OnlyTable>>
                  /\ sched_state.current_index = n - 1
                  /\ ~sched_state.has_timing_errors
                  /\ ~TimingViolation(entry'.timestamp,
                                      sched_state.last_event_timestamp,
                                      T[n].delay_ms)

\* C1: with a single schedule table [F1..Fn] and an empty cursor, LIN Rx records
\* for F1..Fn in order inside an Active network cycle append, on the record for
\* Fn, exactly one cycle record with status Completed and the table's name, and
\* reset the cursor; for every timestamp >= 0, 0 included.
C1_CompletedOnLastSlot ==
    [][C1_LastSlotStep =>
          /\ Len(cycles') = Len(cycles) + 1
          /\ SubSeq(cycles', 1, Len(cycles)) = cycles
          /\ Last(cycles').status = "Completed"
          /\ Last(cycles').schedule_name = OnlyTable
          /\ sched_state' = InitSchedState]_vars

\* C2: no record of the log makes process_log_file raise.
C2_NeverRaises == pc # "raised"

\* ---- gateway correlation ----
\* C3: for every gateway mapping, comparisons = matches + mismatches_value
\* + mismatches_type + mismatches_timing once the post-pass has run.
C3_ComparisonsPartition ==
    \A idx \in MapIdx :
        LET r == gateway_results[idx]
        IN r.comparisons = r.matches + r.mismatches_value
                           + r.mismatches_type + r.mismatches_timing

C3_Witness ==
    /\ pc = "done"
    /\ \E idx \in MapIdx :
          /\ gateway_results[idx].matches > 0
          /\ gateway_results[idx].mismatches_timing > 0
          /\ gateway_results[idx].mismatches_value
                + gateway_results[idx].mismatches_type > 0

\* ---- schedule cycles ----
CountEvents(events, type) ==
    Cardinality({i \in DOMAIN events : events[i].type = type})

\* C4: the event list of every cycle record with status Completed holds exactly
\* one Cycle Start, exactly one Cycle Completed and no Sequence Mismatch.
C4_CompletedCycleEvents ==
    \A i \in DOMAIN cycles :
        cycles[i].status = "Completed" =>
            /\ CountEvents(cycles[i].events, "Cycle Start") = 1
            /\ CountEvents(cycles[i].events, "Cycle Completed") = 1
            /\ CountEvents(cycles[i].events, "Sequence Mismatch") = 0

\* a Completed cycle recorded after an Aborted one
C4_Witness ==
    \E i, j \in DOMAIN cycles :
        i < j /\ cycles[i].status = "Aborted" /\ cycles[j].status = "Completed"

\* ---- pairing of the post-pass ----
SortedByTs(events) ==
    \A i, j \in DOMAIN events : i < j => events[i][1] <= events[j][1]

\* the source events with tt - tolerance <= ts < tt
InWindow(sources, tt) ==
    {i \in DOMAIN sources :
        /\ tt - DEFAULT_GATEWAY_TOLERANCE_MS <= sources[i][1]
        /\ sources[i][1] < tt}

LatestInWindow(sources, tt) ==
    CHOOSE i \in InWindow(sources, tt) : \A j \in InWindow(sources, tt) : j <= i

Paired(sources, targets) ==
    {k \in DOMAIN targets : InWindow(sources, targets[k][1]) # {}}

LatencyOf(sources, target) ==
    target[1] - sources[LatestInWindow(sources, target[1])][1]

RECURSIVE LatencySum(_, _, _)
LatencySum(sources, targets, K) ==
    IF K = {} THEN 0
    ELSE LET k == CHOOSE x \in K : TRUE
         IN LatencyOf(sources, targets[k]) + LatencySum(sources, targets, K \ {k})

\* the targets whose pairing with the latest source in the window compares equal
PairedEqual(sources, targets, m) ==
    {k \in Paired(sources, targets) :
        compare_gateway_values(
            sources[LatestInWindow(sources, targets[k][1])][2], targets[k][2],
            m.source_sig, m.target_sig)[1]}

\* both event lists of the mapping non-empty and sorted by timestamp
C5_SortedLists(idx) ==
    /\ gateway_source_events[idx] # <<>> /\ gateway_target_events[idx] # <<>>
    /\ SortedByTs(gateway_source_events[idx])
    /\ SortedByTs(gateway_target_events[idx])

WakeEventRecord(e) ==
    /\ e.type = "SleepModeEvent" /\ e.event_channel = 1
    /\ (WAKE \in e.text \/ "waking up" \in e.text)

\* a SleepModeEvent whose text contains "entering sleep mode"
SleepEventRecord(e) == e.type = "SleepModeEvent" /\ SLEEP \in e.text

\* a LIN frame with identifier 0x3C whose first data byte is 0x00
LinSleepCommand(e) ==
    /\ e.channel = "LIN" /\ e.frame_id_int = SLEEP_CMD_ID
    /\ e.data # <<>> /\ e.data[1] = 0

\* a LIN traffic record that is not itself a sleep command
LinTrafficRecord(e) ==
    /\ e.channel = "LIN" /\ e.type \in {"Rx", "Tx", "TransmErr", "RcvError"}
    /\ ~LinSleepCommand(e)

CycleOpened ==
    nc_summary'.total_cycles_detected = nc_summary.total_cycles_detected + 1

C7_ActiveToIdle ==
    [][(Analysed /\ nc_state.active) =>
          (~nc_state'.active <=>
               (SleepEventRecord(entry') \/ LinSleepCommand(entry')))]_vars

\* ---- LIN checksum ----
\* a LIN Rx record that declares a checksum
DeclaresChecksum(e) ==
    e.channel = "LIN" /\ e.type = "Rx" /\ e.declared_checksum # None

\* C8: for a LIN Rx record with a declared checksum and CSM "Enhanced", the
\* expected checksum is the classic checksum over [PID(pid_raw & 0x3F)] followed
\* by the data, for every observed pid_raw in 0..0xFF, and a difference from the
\* declared checksum adds one to the bucket (frame id, expected, declared).
C8_EnhancedOverMaskedPid ==
    [][(Analysed /\ DeclaresChecksum(entry') /\ entry'.csm = "Enhanced") =>
          LET expected ==
                  calculate_checksum(
                      <<calculate_pid(entry'.frame_id_int % 64)>> \o entry'.data, None)
          IN checksum_errors' =
                 IF expected # entry'.declared_checksum
                 THEN Bump(checksum_errors,
                           <<entry'.frame_id_int, expected, entry'.declared_checksum>>)
                 ELSE checksum_errors]_vars

\* C9: a LIN Rx record whose CSM word is absent, or is any word other than
\* Classic or Enhanced, never adds a checksum-error bucket.
C9_OtherCsmNotValidated ==
    [][(Analysed /\ DeclaresChecksum(entry')
            /\ Lower(entry'.csm) \notin {"classic", "enhanced"}) =>
          checksum_errors' = checksum_errors]_vars

\* ---- intrusion ----
\* a LIN record the schedule validator evaluates: Rx, TransmErr or RcvError of a
\* frame the LDF knows, with the network cycle Active
ScheduleEvaluated ==
    /\ Analysed /\ pc' = "run"
    /\ entry'.channel = "LIN" /\ entry'.type \in {"Rx", "TransmErr", "RcvError"}
    /\ ldf_id_to_frame(entry'.frame_id_int) # NoFrame
    /\ nc_state'.active

FirstEntryOfSomeTable(name) ==
    \E n \in DOMAIN ldf_schedules :
        ldf_schedules[n] # <<>> /\ ldf_schedules[n][1].frame_name = name

\* C10: a LIN record of an LDF-known frame that the schedule validator observes
\* while the cursor is empty, and that is not the first entry of any schedule
\* table, appends exactly one "Intrusion Frame" global error naming the frame,
\* starts no cycle and leaves the cursor empty.
C10_IntrusionFrame ==
    [][(/\ ScheduleEvaluated
        /\ sched_state.active_schedules = <<>>
        /\ ~FirstEntryOfSomeTable(ldf_id_to_frame(entry'.frame_id_int))) =>
          /\ global_errors' =
                Append(global_errors,
                       [type |-> "Intrusion Frame",
                        frame_name |-> ldf_id_to_frame(entry'.frame_id_int)])
          /\ cycles' = cycles
          /\ sched_state' = sched_state]_vars

\* F2 observed when the only schedule table contains only F1
C10_Witness ==
    /\ pc = "run"
    /\ DOMAIN ldf_schedules = {"T"} /\ Len(ldf_schedules["T"]) = 1
    /\ entry.channel = "LIN" /\ entry.type = "Rx" /\ entry.frame_id_int = 2
    /\ nc_state.active
    /\ sched_state.active_schedules = <<>>
    /\ global_errors # <<>>
    /\ Last(global_errors) = [type |-> "Intrusion Frame", frame_name |-> "F2"]

\* ---- bus load ----
\* C11: after process_log_file, for any sequence of LIN records and timestamps,
\* the sum of the per-window bus-load values equals total_busy_time /
\* bus_load_window within one window (both sides in bit times here).
C11_BusLoadSum ==
    pc = "done" =>
        Abs(SumSeq(lin_bus_load.bus_load_by_window) - lin_bus_load.total_busy_time)
            <= WindowBits

\* ---- counter buckets ----
BucketsOf(buckets) == {buckets[k] : k \in DOMAIN buckets}

\* C12: after any sequence of records every counter bucket satisfies
\* start_time <= first_ts <= last_ts <= end_time, start_time and end_time being
\* the log bounds the engine records.
C12_BucketsWithinLogBounds ==
    \A b \in BucketsOf(foreign_ids) \cup BucketsOf(dlc_errors)
                \cup BucketsOf(parity_errors) :
        /\ log_info.start_time <= b.first_ts
        /\ b.first_ts <= b.last_ts
        /\ b.last_ts <= log_info.end_time

CountOf(buckets, key) == IF key \in DOMAIN buckets THEN buckets[key].count ELSE 0

\* exactly the bucket `key` of `buckets` is incremented by one
OnlyIncremented(before, after, key) ==
    /\ DOMAIN after = DOMAIN before \cup {key}
    /\ CountOf(after, key) = CountOf(before, key) + 1
    /\ \A k \in DOMAIN before : k # key => after[k] = before[k]

\* C13: for every LIN Rx record, an identifier the LDF does not define
\* increments exactly the Foreign LIN ID entry of that identifier and records no
\* DLC error; a known identifier whose number of data bytes differs from the LDF
\* DLC increments the DLC bucket (id, expected, observed); otherwise neither
\* summary changes.
C13_ForeignIdOrDlc ==
    [][(Analysed /\ entry'.channel = "LIN" /\ Lower(entry'.type) = "rx") =>
          LET f == ldf_id_to_frame(entry'.frame_id_int)
          IN IF f = NoFrame
             THEN /\ OnlyIncremented(foreign_ids, foreign_ids', entry'.frame_id)
                  /\ dlc_errors' = dlc_errors
             ELSE IF Len(entry'.data) # LdfFrames[f].dlc
             THEN /\ OnlyIncremented(dlc_errors, dlc_errors',
                          <<entry'.frame_id_int, LdfFrames[f].dlc, Len(entry'.data)>>)
                  /\ foreign_ids' = foreign_ids
             ELSE foreign_ids' = foreign_ids /\ dlc_errors' = dlc_errors]_vars

\* a log with a single unknown-id LIN line: exactly one Foreign LIN ID entry
C13_Witness ==
    /\ pc = "done" /\ nlog = 1
    /\ DOMAIN foreign_ids = {IdText(10, "upper")}
    /\ foreign_ids[IdText(10, "upper")].count = 1
    /\ dlc_errors = <<>>

\* ---- PID parity ----
\* the protected identifier of id: P0 = b0 xor b1 xor b2 xor b4 in bit 6,
\* P1 = not (b1 xor b3 xor b4 xor b5) in bit 7
ProtectedId(id) ==
    LET b(k) == Bit(id, k)
        P0 == (b(0) + b(1) + b(2) + b(4)) % 2
        P1 == 1 - ((b(1) + b(3) + b(4) + b(5)) % 2)
    IN id + 64 * P0 + 128 * P1

\* C14: for every frame id in 0..63 the parity validator accepts
\* calculate_pid(id); for every observed pid_raw in 0x40..0xFF the parity bucket
\* keyed by pid_raw is incremented iff pid_raw differs from
\* calculate_pid(pid_raw & 0x3F), with P0 and P1 as above; calculate_pid fails
\* for ids outside 0..63.
C14_ParityRoundTrip ==
    [][(Analysed /\ entry'.channel = "LIN") =>
          LET pid == entry'.frame_id_int
          IN /\ pid \in 0..63 =>
                  /\ calculate_pid(pid) = ProtectedId(pid)
                  /\ validate_id_parity(
                         [entry' EXCEPT !.frame_id_int = calculate_pid(pid)],
                         parity_errors) = parity_errors
                  /\ parity_errors' = parity_errors
             /\ pid \notin 0..63 => calculate_pid(pid) = PidError
             /\ pid \in 64..255 =>
                  IF pid # calculate_pid(pid % 64)
                  THEN OnlyIncremented(parity_errors, parity_errors', pid)
                  ELSE parity_errors' = parity_errors]_vars

\* the identifier field 0x43 (identifier 3 with the parity bits of 2) is reported
C14_Witness ==
    /\ pc = "run"
    /\ entry.frame_id_int = 67
    /\ DOMAIN parity_errors = {67}
    /\ parity_errors[67].count = 1

\* ---- checksum algebra ----
\* C15: for data D of 0..8 bytes and a PID P in 0..255 the enhanced checksum
\* of (P, D) equals the classic checksum of [P] followed by D; the classic
\* checksum of empty data is 0xFF, the enhanced checksum of empty data is
\* ~P & 0xFF (= 255 - P), and every result lies in 0..255.
C15_EnhancedIsClassicOfPidData ==
    (pc = "returned" /\ Len(call_args.data_bytes) <= 8
                     /\ call_args.pid_for_enhanced \in {None} \cup (0..255)) =>
        LET P == call_args.pid_for_enhanced
            D == call_args.data_bytes
        IN /\ call_result \in 0..255
           /\ P # None => call_result = calculate_checksum(<<P>> \o D, None)
           /\ (P = None /\ D = <<>>) => call_result = 255
           /\ (P # None /\ D = <<>>) => call_result = 255 - P

\* an enhanced checksum over empty data with a non-zero PID, and one whose
\* sum needs two carry folds (0xFF + 0xFF + 1 = 0x1FF -> 0x100 -> 1)
C15_Witness ==
    /\ pc = "returned"
    /\ \/ call_args = [data_bytes |-> <<>>, pid_for_enhanced |-> 66] /\ call_result = 189
       \/ call_args = [data_bytes |-> <<255, 1>>, pid_for_enhanced |-> 255] /\ call_result = 254

\* ---- schedule grouping ----
\* C16: grouping is idempotent: applying group_equivalent_schedules to the
\* unique set it returned for S returns that same unique set, with the same
\* names and the same contents.
C16_GroupingIdempotent ==
    pc = "regrouped" => call_result.unique = call_args[2]

\* three tables of which T and T1 have the same content were grouped under T,
\* and the unique set {T, T2} was grouped again
C16_Witness ==
    /\ pc = "regrouped"
    /\ DOMAIN call_args[1] = {"T", "T1", "T2"}
    /\ call_args[1]["T"] = call_args[1]["T1"]
    /\ call_args[1]["T"].is_list
    /\ DOMAIN call_args[2] = {"T", "T2"}

\* ---- gateway map resolution ----
\* the referenced message exists on the network and contains the referenced
\* signal, and a LIN frame has an assigned id
EndpointResolved(network, message, signal) ==
    IF network = "LIN"
    THEN /\ Strip(message) \in DOMAIN GwLdfFrames
         /\ Strip(signal) \in GwLdfFrames[Strip(message)].signals
         /\ GwLdfFrames[Strip(message)].id # None
    ELSE /\ network \in DOMAIN GwCanDbcs
         /\ \E i \in DOMAIN GwCanDbcs[network] :
                /\ GwCanDbcs[network][i].name = Strip(message)
                /\ Strip(signal) \in GwCanDbcs[network][i].signals

RegisteredIn(index, map_index) == \E r \in index : r[3] = map_index

\* C17: every mapping registered in the source index or the target index has
\* both endpoints resolved; a mapping of which only one endpoint resolves is
\* registered in neither index.
C17_RegisteredBothResolved ==
    pc = "returned" =>
        \A k \in DOMAIN call_args :
            (RegisteredIn(call_result.source, k - 1)
                \/ RegisteredIn(call_result.target, k - 1)) =>
                /\ EndpointResolved(call_args[k].source_network,
                                    call_args[k].source_message,
                                    call_args[k].source_signal)
                /\ EndpointResolved(call_args[k].target_network,
                                    call_args[k].target_message,
                                    call_args[k].target_signal)

\* ---- DBC aggregation ----
\* the returned model holds a message of the file with a signal that file declares
ContainsMessagesOf(result, file) ==
    \E k \in DOMAIN file.messages :
        /\ file.messages[k].id \in DOMAIN result.messages
        /\ file.messages[k].signals \cap
               result.messages[file.messages[k].id].signals # {}

\* C18: when two DBC files aggregated for one channel declare different baud
\* rates, parse_dbcs_for_channel fails with an error: it does not return a
\* merged model containing messages of the conflicting file.
C18_BaudConflictFails ==
    (/\ pc = "returned"
     /\ call_args[1].baudrate # None /\ call_args[2].baudrate # None
     /\ call_args[1].baudrate # call_args[2].baudrate) =>
        \/ call_result.raised
        \/ ~ContainsMessagesOf(call_result, call_args[2])

\* ---- timestamp synchronisation ----
\* C19: while a log is processed, every record whose timestamp is strictly less
\* than the timestamp of the previous record increments the sync
\* 'negative_jump' bucket by one, with the example {prev, current, delta}
\* stored on the first occurrence; the run continues.
C19_NegativeJumpCounted ==
    [][(RecordStep /\ nlog >= 1 /\ entry'.timestamp < entry.timestamp) =>
          /\ OnlyIncremented(sync_errors, sync_errors', "negative_jump")
          /\ "negative_jump" \notin DOMAIN sync_errors =>
                 sync_errors'["negative_jump"].example_details =
                     [prev |-> entry.timestamp, current |-> entry'.timestamp,
                      delta |-> entry'.timestamp - entry.timestamp]
          /\ pc' = "run"]_vars

\* ---- cycle start ----
\* the schedule tables whose first entry is the frame
CandidatesOf(name) ==
    {n \in DOMAIN ldf_schedules :
        ldf_schedules[n] # <<>> /\ ldf_schedules[n][1].frame_name = name}

\* a record the schedule validator evaluates arrives while the cursor is empty
EmptyCursorStep == ScheduleEvaluated /\ sched_state.active_schedules = <<>>

\* the cursor after a start: all candidates, index 1, one Cycle Start event
StartedWith(name) ==
    /\ sched_state'.active_schedules = SortedNames(CandidatesOf(name))
    /\ sched_state'.current_index = 1
    /\ sched_state'.cycle_log = <<Event("Cycle Start", name, {})>>
    /\ cycles' = cycles

NotStarted == sched_state' = sched_state /\ cycles' = cycles

\* the frame is the whole of the only candidate table
OnlyCandidateHasOneSlot(name) ==
    /\ Cardinality(CandidatesOf(name)) = 1
    /\ \A n \in CandidatesOf(name) : Len(ldf_schedules[n]) = 1

Names(seq) == {seq[i] : i \in DOMAIN seq}

\* the active schedules whose entry at current_index is the frame
MatchingActive(name) ==
    {n \in Names(sched_state.active_schedules) :
        /\ sched_state.current_index < Len(ldf_schedules[n])
        /\ ldf_schedules[n][sched_state.current_index + 1].frame_name = name}

\* the frames expected at current_index across the active schedules
ExpectedNow ==
    {ldf_schedules[n][sched_state.current_index + 1].frame_name :
        n \in {m \in Names(sched_state.active_schedules) :
                  sched_state.current_index < Len(ldf_schedules[m])}}

\* a record the schedule validator evaluates against a non-empty cursor
CursorStep == ScheduleEvaluated /\ sched_state.active_schedules # <<>>

MatchStep == CursorStep /\ MatchingActive(ldf_id_to_frame(entry'.frame_id_int)) # {}

\* the match leaves one schedule whose last slot it was
CompletesCycle(name) ==
    /\ Cardinality(MatchingActive(name)) = 1
    /\ \A n \in MatchingActive(name) :
           sched_state.current_index + 1 >= Len(ldf_schedules[n])

PrunedAndAdvanced(name) ==
    /\ sched_state'.active_schedules = SortedNames(MatchingActive(name))
    /\ sched_state'.current_index = sched_state.current_index + 1

\* the statement as the specification words it: after every match the cursor
\* holds the pruned set at the next index
C21_MatchLeavesPrunedCursor ==
    [][MatchStep => PrunedAndAdvanced(ldf_id_to_frame(entry'.frame_id_int))]_vars

\* C21: on a match against a non-empty cursor active_schedules becomes exactly
\* the previously active schedules whose entry at current_index is the observed
\* frame and current_index increases by one, unless the match is the last slot
\* of the one schedule left: then the cycle ends in the same step and the cursor
\* is empty again. Within one cycle active_schedules never gains a schedule: a
\* schedule that was not active enters only with the Cycle Start of a new cycle.
C21_MatchPrunes ==
    [][/\ MatchStep =>
            LET name == ldf_id_to_frame(entry'.frame_id_int)
            IN IF CompletesCycle(name)
               THEN sched_state' = InitSchedState
               ELSE PrunedAndAdvanced(name) /\ cycles' = cycles
       /\ (RecordStep /\ ~(Names(sched_state'.active_schedules)
                              \subseteq Names(sched_state.active_schedules))) =>
            /\ sched_state'.current_index = 1
            /\ Len(sched_state'.cycle_log) = 1
            /\ sched_state'.cycle_log[1].type = "Cycle Start"]_vars

\* F1 opened T1 and T2, F2 left T1 alone at index 2 with one slot to go
C21_Witness ==
    /\ pc = "run"
    /\ DOMAIN ldf_schedules = {"T1", "T2"}
    /\ Len(ldf_schedules["T1"]) = 3
    /\ entry.frame_id_int = 2
    /\ sched_state.active_schedules = <<"T1">>
    /\ sched_state.current_index = 2

\* ---- sequence mismatch ----
MismatchStep == CursorStep /\ MatchingActive(ldf_id_to_frame(entry'.frame_id_int)) = {}

\* C22: when the cursor is non-empty and the observed frame is not the entry at
\* current_index of any active schedule, a 'Sequence Mismatch' event carrying
\* the expected frame set and the observed frame name is logged and the current
\* cycle is recorded with status 'Aborted', never as Completed.
C22_MismatchAborts ==
    [][MismatchStep =>
          /\ Len(cycles') > Len(cycles)
          /\ LET c == cycles'[Len(cycles) + 1]
             IN /\ c.status = "Aborted"
                /\ Last(c.events) =
                       Event("Sequence Mismatch",
                             ldf_id_to_frame(entry'.frame_id_int), ExpectedNow)
                /\ CountEvents(c.events, "Cycle Completed") = 0]_vars

\* ---- the record after an abort ----
\* the record that matched no active table and had an expected frame to miss
SequenceMismatchStep == MismatchStep /\ ExpectedNow # {}

\* the cursor a start leaves, whatever became of the cycle before it
RestartedWith(name) ==
    IF OnlyCandidateHasOneSlot(name) THEN sched_state' = InitSchedState
    ELSE /\ sched_state'.active_schedules = SortedNames(CandidatesOf(name))
         /\ sched_state'.current_index = 1
         /\ sched_state'.cycle_start_timestamp = entry'.timestamp
         /\ sched_state'.cycle_log = <<Event("Cycle Start", name, {})>>

\* C23: the record that triggers a Sequence Mismatch is evaluated again against
\* the emptied cursor within the same step: it starts a new cycle if it is the
\* first entry of some schedule table (no global error), and otherwise it
\* appends exactly one 'Intrusion Frame' global error naming the frame and
\* leaves the cursor empty; the step always ends with the loop still running.
C23_MismatchReevaluated ==
    [][SequenceMismatchStep =>
          LET name == ldf_id_to_frame(entry'.frame_id_int)
          IN /\ pc' = "run"
             /\ IF CandidatesOf(name) # {}
                THEN RestartedWith(name) /\ global_errors' = global_errors
                ELSE /\ sched_state' = InitSchedState
                     /\ global_errors' =
                           Append(global_errors,
                                  [type |-> "Intrusion Frame", frame_name |-> name])]_vars

\* one record left both a Sequence Mismatch event and an Intrusion Frame error
C23_Witness ==
    /\ pc = "run" /\ entry.frame_id_int = SLEEP_CMD_ID
    /\ cycles # <<>>
    /\ Last(cycles).status = "Aborted"
    /\ Last(Last(cycles).events) = Event("Sequence Mismatch", "MasterReq", {"F2"})
    /\ global_errors = <<[type |-> "Intrusion Frame", frame_name |-> "MasterReq"]>>
    /\ sched_state = InitSchedState

\* the mismatching record opened the next cycle
C23_WitnessRestart ==
    /\ pc = "run" /\ entry.frame_id_int = 1
    /\ cycles # <<>>
    /\ Last(Last(cycles).events) = Event("Sequence Mismatch", "F1", {"F2"})
    /\ sched_state.cycle_log = <<Event("Cycle Start", "F1", {})>>
    /\ sched_state.current_index = 1

\* ---- completion of a table ----
\* the record is the last slot of table n, whose earlier slots were matched in
\* order since the cycle began on an empty cursor at a non-zero timestamp
MatchesLastSlotOf(n) ==
    LET name == ldf_id_to_frame(entry'.frame_id_int)
    IN /\ ScheduleEvaluated
       /\ \/ /\ sched_state.active_schedules = <<>>
             /\ n \in CandidatesOf(name)
             /\ Len(ldf_schedules[n]) = 1
             /\ entry'.timestamp # 0
          \/ /\ n \in MatchingActive(name)
             /\ sched_state.current_index + 1 = Len(ldf_schedules[n])
             /\ ~Falsy(sched_state.cycle_start_timestamp)

\* C24: when the frames of one table T have been observed in order starting
\* from an empty cursor, the record that matches the last slot of T records a
\* cycle with status "Completed" for T, also when T is a prefix of another
\* table or shares its entries with other tables.
C24_LastSlotCompletes ==
    [][\A n \in DOMAIN ldf_schedules :
          MatchesLastSlotOf(n) =>
              /\ Len(cycles') = Len(cycles) + 1
              /\ Last(cycles').status = "Completed"
              /\ Last(cycles').schedule_name = n]_vars

\* ---- the cursor across network cycles ----
\* the record opens a network cycle and is handed to the schedule validator
OpensNetworkCycle == ScheduleEvaluated /\ ~nc_state.active

\* C25: the schedule cursor belongs to one network active-cycle: the first LIN
\* frame of a new network cycle finds the cursor (active_schedules,
\* current_index, last_event_timestamp) empty, so it is evaluated as a
\* potential cycle start and not against a slot of a cycle begun before the
\* sleep.
C25_CursorEmptyAtNetworkCycleStart ==
    [][OpensNetworkCycle =>
          /\ sched_state.active_schedules = <<>>
          /\ sched_state.current_index = 0
          /\ sched_state.last_event_timestamp = None
          /\ LET name == ldf_id_to_frame(entry'.frame_id_int)
             IN IF CandidatesOf(name) = {}
                THEN global_errors' =
                        Append(global_errors,
                               [type |-> "Intrusion Frame", frame_name |-> name])
                ELSE global_errors' = global_errors]_vars

\* ---- timing of a matched slot ----
CountAt(counter, k) == IF k \in DOMAIN counter THEN counter[k] ELSE 0

\* |observed - expected| > max(expected * 0.1, min_absolute_tolerance) + jitter
\* on the millisecond values themselves, in ms * 10
ExceedsTolerance(observed_ms, expected_ms) ==
    10 * Abs(observed_ms - expected_ms)
        > Max(expected_ms, 10 * SCHEDULE_MIN_TOLERANCE_MS) + 10 * MASTER_JITTER_MS

\* C26: on a slot match, the timing-mismatch bucket keyed (schedule, slot
\* index) is incremented if and only if |observed_delay - expected_delay| >
\* max(expected_delay * tolerance_factor, min_absolute_tolerance) +
\* master_jitter, observed_delay being the time since the previous matched
\* record of the cycle; a delay exactly at the tolerance bound is not a
\* violation.
C26_TimingBucket ==
    [][MatchStep =>
          \A n \in MatchingActive(ldf_id_to_frame(entry'.frame_id_int)) :
              LET slot == sched_state.current_index
                  observed == entry'.timestamp - sched_state.last_event_timestamp
                  expected == ldf_schedules[n][slot + 1].delay_ms
              IN CountAt(schedule_timing_mismatches', <<n, slot>>)
                    = CountAt(schedule_timing_mismatches, <<n, slot>>)
                        + (IF ExceedsTolerance(observed, expected) THEN 1 ELSE 0)]_vars

\* ---- slave reliability ----
ReliabilityKeys ==
    {<<LdfFrames[f].publisher, f>> : f \in DOMAIN LdfFrames}
        \cup DOMAIN slave_reliability \cup DOMAIN slave_reliability'

RequestsOf(rel, k) == IF k \in DOMAIN rel THEN rel[k].requests ELSE 0
ResponsesOf(rel, k) == IF k \in DOMAIN rel THEN rel[k].responses ELSE 0

PublishedBySlave(k) ==
    k[2] \in DOMAIN LdfFrames /\ LdfFrames[k[2]].publisher = k[1] /\ k[1] # MASTER

ResponsesWithinRequests ==
    \A k \in DOMAIN slave_reliability :
        slave_reliability[k].responses <= slave_reliability[k].requests

\* what one record does to the counters of every (node, frame)
ReliabilityStep ==
    LET name == ldf_id_to_frame(entry'.frame_id_int)
    IN \A k \in ReliabilityKeys :
          IF CursorStep
          THEN /\ RequestsOf(slave_reliability', k)
                    = RequestsOf(slave_reliability, k)
                        + (IF k[2] \in ExpectedNow /\ PublishedBySlave(k) THEN 1 ELSE 0)
               /\ ResponsesOf(slave_reliability', k)
                    = ResponsesOf(slave_reliability, k)
                        + (IF k[2] = name /\ name \in ExpectedNow /\ PublishedBySlave(k)
                           THEN 1 ELSE 0)
          ELSE /\ RequestsOf(slave_reliability', k) = RequestsOf(slave_reliability, k)
               /\ ResponsesOf(slave_reliability', k) = ResponsesOf(slave_reliability, k)

\* C27: for every record evaluated against a non-empty cursor, requests is
\* incremented once for each expected frame whose publisher is not the master,
\* and responses is incremented once exactly when the observed frame is one of
\* the expected frames and has a non-master publisher; no other record changes
\* a counter, and responses <= requests holds for every (slave node, frame)
\* after any sequence of records.
C27_ResponsesWithinRequests ==
    /\ []ResponsesWithinRequests
    /\ [][RecordStep => ReliabilityStep]_vars

\* F2 was expected twice and answered once
C27_Witness ==
    /\ pc = "run"
    /\ <<"S", "F2">> \in DOMAIN slave_reliability
    /\ slave_reliability[<<"S", "F2">>] = [requests |-> 2, responses |-> 1]
    /\ entry.frame_id_int = 2

\* ---- end of log inside a network cycle ----
\* a LIN Rx record of a frame the master publishes
MasterRxRecord(e) ==
    /\ e.channel = "LIN" /\ Lower(e.type) = "rx"
    /\ ldf_id_to_frame(e.frame_id_int) # NoFrame
    /\ LdfFrames[ldf_id_to_frame(e.frame_id_int)].publisher = MASTER

\* first_master_found says whether a master frame was seen in the open cycle,
\* the record that opened it included
MasterSeenTracked ==
    (Analysed /\ nc_state'.active) =>
        (nc_state'.first_master_found
            <=> ((nc_state.active /\ nc_state.first_master_found)
                    \/ MasterRxRecord(entry')))

Finalization == pc = "run" /\ pc' = "done"

FinalizedOpenCycle ==
    LET unanswered == ~nc_state.first_master_found
    IN /\ nc_summary'.cycles_incomplete = nc_summary.cycles_incomplete + 1
       /\ nc_summary'.cycles_no_master_response
             = nc_summary.cycles_no_master_response + (IF unanswered THEN 1 ELSE 0)
       /\ nc_summary'.total_cycles_detected = nc_summary.total_cycles_detected
       /\ nc_summary'.cycles_completed = nc_summary.cycles_completed
       /\ ~nc_state'.active
       /\ IF nc_summary.example_problem_cycle # <<>>
          THEN nc_summary'.example_problem_cycle = nc_summary.example_problem_cycle
          ELSE /\ Len(nc_summary'.example_problem_cycle) = 1
               /\ "Incomplete Cycle" \in nc_summary'.example_problem_cycle[1]
               /\ "No Master Response" \in nc_summary'.example_problem_cycle[1]
                     <=> unanswered

\* C28: if the log ends while the network cycle is Active, finalization
\* increments cycles_incomplete by exactly one, flags the open cycle
\* "Incomplete Cycle", increments cycles_no_master_response (flag "No Master
\* Response") if and only if no LIN Rx record of a master-published frame was
\* seen in that cycle, and leaves the machine Idle; if the machine is Idle at
\* the end of the log, the network-cycle state and counters do not change.
C28_FinalizationOfOpenCycle ==
    [][/\ MasterSeenTracked
       /\ Finalization =>
             IF nc_state.active THEN FinalizedOpenCycle
             ELSE nc_summary' = nc_summary /\ nc_state' = nc_state]_vars

\* the log ended inside an implicit cycle in which only a slave frame was seen
C28_Witness ==
    /\ pc = "done"
    /\ nlog = 1 /\ entry.frame_id_int = 2 /\ entry.type = "Rx"
    /\ ~nc_state.active
    /\ nc_summary.cycles_incomplete = 1
    /\ nc_summary.cycles_no_master_response = 1
    /\ nc_summary.example_problem_cycle
          = <<{"Implicit Start", "Incomplete Cycle", "No Master Response"}>>

\* ---- the counters of the network-cycle machine ----
\* C29: at every point of a run total_cycles_detected = cycles_completed +
\* cycles_incomplete + (1 if the network cycle is Active, else 0) and
\* cycles_no_master_response <= total_cycles_detected; after finalization the
\* machine is Idle and total_cycles_detected = cycles_completed +
\* cycles_incomplete.
C29_CycleCountersBalance ==
    /\ nc_summary.total_cycles_detected
          = nc_summary.cycles_completed + nc_summary.cycles_incomplete
                + (IF nc_state.active THEN 1 ELSE 0)
    /\ nc_summary.cycles_no_master_response <= nc_summary.total_cycles_detected
    /\ pc = "done" =>
          /\ ~nc_state.active
          /\ nc_summary.total_cycles_detected
                = nc_summary.cycles_completed + nc_summary.cycles_incomplete

\* a closed cycle and a cycle cut off by the end of the log
C29_Witness ==
    /\ pc = "done"
    /\ nc_summary.total_cycles_detected = 2
    /\ nc_summary.cycles_completed = 1
    /\ nc_summary.cycles_incomplete = 1
    /\ nc_summary.cycles_no_master_response = 1

\* ---- logger activity ----
\* a SleepModeEvent record with channel 0
Channel0Event == Analysed /\ entry'.type = "SleepModeEvent" /\ entry'.event_channel = 0

LoggerStart(e) == START \in e.text \/ "waking up" \in e.text
LoggerSleep(e) == SLEEP \in e.text

\* what a channel-0 event does to the logger activity machine, and that no
\* other record touches it
LoggerMachineStep ==
    IF ~Channel0Event
    THEN /\ logger_cycle_state' = logger_cycle_state
         /\ logger_activity_periods' = logger_activity_periods
    ELSE IF ~logger_cycle_state.active /\ LoggerStart(entry')
    THEN /\ logger_cycle_state' = [active |-> TRUE, start_ts |-> entry'.timestamp]
         /\ logger_activity_periods' = logger_activity_periods
    ELSE IF logger_cycle_state.active /\ LoggerSleep(entry')
    THEN /\ ~logger_cycle_state'.active
         /\ logger_activity_periods'
               = Append(logger_activity_periods,
                        [start_ts |-> logger_cycle_state.start_ts,
                         end_ts |-> entry'.timestamp,
                         duration_s |-> entry'.timestamp - logger_cycle_state.start_ts])
    ELSE /\ logger_cycle_state' = logger_cycle_state
         /\ logger_activity_periods' = logger_activity_periods

\* the logger part alone
LoggerMachineOnly == [][RecordStep => LoggerMachineStep]_vars

IndexedAsSource(e, i) ==
    MappingOf(i).source_network = e.channel /\ MappingOf(i).source_id = e.frame_id_int

IndexedAsTarget(e, i) ==
    MappingOf(i).target_network = e.channel /\ MappingOf(i).target_id = e.frame_id_int

\* the list is the old one, or the old one with one event of the record
AppendedBy(new, old, e) ==
    /\ Len(new) = Len(old) + 1
    /\ SubSeq(new, 1, Len(old)) = old
    /\ new[Len(new)][1] = e.timestamp

\* C31: a gateway source or target event (ts, raw) is appended for a mapping
\* only by a record whose (channel, frame id) is indexed for that side of the
\* mapping and with the network cycle Active once the machine has seen the
\* record; a record that leaves the network cycle Idle appends nothing to any
\* list, and no record removes or rewrites an event.
C31_CaptureOnlyWhileActive ==
    [][RecordStep =>
          \A i \in MapIdx :
              /\ \/ gateway_source_events'[i] = gateway_source_events[i]
                 \/ /\ AppendedBy(gateway_source_events'[i], gateway_source_events[i],
                                   entry')
                    /\ nc_state'.active /\ IndexedAsSource(entry', i)
              /\ \/ gateway_target_events'[i] = gateway_target_events[i]
                 \/ /\ AppendedBy(gateway_target_events'[i], gateway_target_events[i],
                                   entry')
                    /\ nc_state'.active /\ IndexedAsTarget(entry', i)]_vars

\* a target frame seen while Idle left no event, the source frame after it
\* opened the network cycle and was captured
C31_Witness ==
    /\ pc = "run" /\ nlog = 2
    /\ log_info.start_time = 10 /\ entry.timestamp = 0
    /\ entry.channel = "LIN"
    /\ Len(gateway_source_events[1]) = 1
    /\ gateway_source_events[1][1][1] = 0
    /\ gateway_target_events[1] = <<>>

\* ---- order of the captured events ----
\* C32: for every log the source and the target event list of every mapping
\* are in non-decreasing timestamp order when they are handed to the
\* post-pass, so that no target event with a source event inside its
\* tolerance window is counted as a timing mismatch.
C32_EventListsInTimeOrder ==
    \A idx \in MapIdx :
        /\ SortedByTs(gateway_source_events[idx])
        /\ SortedByTs(gateway_target_events[idx])
        /\ (pc = "done" /\ gateway_source_events[idx] # <<>>) =>
              gateway_results[idx].mismatches_timing
                  = Len(gateway_target_events[idx])
                       - Cardinality(Paired(gateway_source_events[idx],
                                            gateway_target_events[idx]))

\* the N-bit field of a frame as the unsigned integer the bus carried
FieldOf(data, sig) == (Combined(data) \div Pow2(sig.start_bit)) % Pow2(sig.length)

\* physical value of a field: two's complement per the signal's own length
\* and signedness, then scaling
PhysicalOfField(field, sig) ==
    (IF sig.is_signed /\ field >= Pow2(sig.length - 1)
     THEN field - Pow2(sig.length) ELSE field) * sig.factor + sig.offset

\* C33: compare_gateway_values classifies every (source, target) pair into
\* exactly one kind: 'raw_logical' when both raws are in their own logical
\* maps (match iff the raws are equal), 'physical' when neither is (match iff
\* the physical values, after sign extension per each side's own length and
\* signedness and scaling, are equal; factors and offsets are integers here
\* so closer than 1e-6 means equal), 'hybrid_mismatch' when exactly one side
\* is logical, never a match.
C33_ComparisonKinds ==
    pc = "returned" =>
        LET a == call_args
            r == call_result
            s_logic == r.raw_source \in a.src.logical_map
            t_logic == r.raw_target \in a.tgt.logical_map
        IN /\ (s_logic /\ t_logic) =>
                /\ r.comparison_type = "raw_logical"
                /\ r.match = (r.raw_source = r.raw_target)
           /\ (~s_logic /\ ~t_logic) =>
                /\ r.comparison_type = "physical"
                /\ r.match = (PhysicalOfField(FieldOf(a.src_data, a.src), a.src)
                              = PhysicalOfField(FieldOf(a.tgt_data, a.tgt), a.tgt))
           /\ (s_logic # t_logic) =>
                /\ r.comparison_type = "hybrid_mismatch"
                /\ ~r.match

\* floor(a / b) for b > 0
FloorDiv(a, b) == IF a >= 0 THEN a \div b ELSE 0 - ((b - 1 - a) \div b)

\* C34: after the run of a non-empty log bus_load_by_window has exactly
\* floor(duration / W) + 1 entries, a window in which no LIN frame was
\* bucketed is 0, and every other window holds the busy time of the records
\* bucketed in it (in bit times here, as for C11).
C34_BusLoadWindows ==
    (pc = "done" /\ nlog > 0) =>
        LET windows == lin_bus_load.bus_load_by_window
            bucketed == lin_bus_load.time_in_window
        IN /\ Len(windows)
                = FloorDiv(log_info.end_time - log_info.start_time,
                           BUS_LOAD_WINDOW_MS) + 1
           /\ \A i \in 1..Len(windows) :
                windows[i] = IF (i - 1) \in DOMAIN bucketed
                             THEN bucketed[i - 1] ELSE 0

\* C35: for every non-empty log the finalizer sets the total log duration to
\* end_time - start_time and, whenever that difference is positive, the
\* overall bus-load percentage to total_busy_time / duration * 100, also
\* when the first record is at 0.000.
C35_DurationAndOverallLoad ==
    (pc = "done" /\ nlog > 0) =>
        LET difference == log_info.end_time - log_info.start_time
        IN /\ log_info.duration = difference
           /\ difference > 0 =>
                lin_bus_load.percentage
                    = <<lin_bus_load.total_busy_time, difference>>

\* ---- signal statistics ----
StatKeys == {<<"LIN", SigSource.name>>, <<"CAN1", SigTarget.name>>}

\* the signal of key in the frame of record e, as a set (empty when the
\* frame of e does not carry it or the data does not hold all its bytes)
DecodedSignals(e, key) ==
    {s \in {FrameSignals(e)[i] : i \in DOMAIN FrameSignals(e)} :
        /\ key = <<e.channel, s.name>>
        /\ Len(e.data) >= (s.start_bit + s.length + 7) \div 8}

\* the step processes one record that is a decoded observation of key
Observes(key) ==
    /\ pc = "run" /\ pc' = "run" /\ nlog' = nlog + 1
    /\ DecodedSignals(entry', key) # {}

ObservedPhys(e, key) ==
    LET s == CHOOSE s \in DecodedSignals(e, key) : TRUE
    IN CapturedRaw(e.data, s) * s.factor + s.offset

\* the statistics recorded for key; count 0 while there are none
StatsOf(stats, key) ==
    IF key \in DOMAIN stats THEN stats[key]
    ELSE [min_phys |-> None, max_phys |-> None, first_ts |-> None, count |-> 0]

\* the statistics of key follow one more observation of value p at time ts
StatsFollow(key, p, ts) ==
    LET old == StatsOf(signal_stats, key)
        new == StatsOf(signal_stats', key)
    IN /\ new.count = old.count + 1
       /\ new.first_ts = IF old.count = 0 THEN ts ELSE old.first_ts
       /\ new.min_phys = IF old.count = 0 \/ p < old.min_phys THEN p ELSE old.min_phys
       /\ new.max_phys = IF old.count = 0 \/ p > old.max_phys THEN p ELSE old.max_phys

StatsStep ==
    \A key \in StatKeys :
        IF Observes(key)
        THEN StatsFollow(key, ObservedPhys(entry', key), entry'.timestamp)
        ELSE StatsOf(signal_stats', key) = StatsOf(signal_stats, key)

MinBelowMax ==
    \A key \in DOMAIN signal_stats :
        signal_stats[key].count >= 1
            => signal_stats[key].min_phys <= signal_stats[key].max_phys

\* C36: for every (network, signal) with count >= 1, min_phys <= max_phys,
\* and min_phys, max_phys, count and first_ts are the minimum, the maximum,
\* the number and the first timestamp of the decoded observations of
\* raw * factor + offset: every observation adds one to the count, lowers
\* the minimum or raises the maximum when it lies beyond them, and sets
\* first_ts only when it is the first; nothing else changes the statistics.
C36_SignalStatistics == []MinBelowMax /\ [][StatsStep]_vars

\* a second observation of Sig that is below the first one
C36_Witness ==
    /\ pc = "run"
    /\ <<"LIN", "Sig">> \in DOMAIN signal_stats
    /\ signal_stats[<<"LIN", "Sig">>]
            = [min_phys |-> 5, max_phys |-> 200, first_ts |-> 10, count |-> 2]
    /\ entry.data = <<5, 250>> /\ entry.timestamp = 0

\* the physical range the bus description declares for the signal of key
DefinedRange(key) ==
    IF key = <<"LIN", SigSource.name>>
    THEN [min |-> LdfEncodingRange.min_value, max |-> LdfEncodingRange.max_value]
    ELSE [min |-> DbcSgRange.min_value_defined, max |-> DbcSgRange.max_value_defined]

RangeStep ==
    \A key \in StatKeys :
        LET p == ObservedPhys(entry', key)
            before == RangeCountAt(signal_range_errors, key)
            after == RangeCountAt(signal_range_errors', key)
        IN IF Observes(key) /\ (p < DefinedRange(key).min \/ p > DefinedRange(key).max)
           THEN after = before + 1
           ELSE after = before

\* C37: whenever a decoded signal with encoding Physical or Hybrid has a
\* defined [min, max] range in the bus model and a decoded physical value
\* lies outside it, the range-error bucket of (network, signal) grows by
\* one; values inside the range never increment it.
C37_RangeErrorsCounted == [][RangeStep]_vars

\* ---- signal extraction ----
\* bit n of the frame counted LSB-first from byte 0; 0 beyond the data
LsbFirstBit(data, n) ==
    IF n \div 8 + 1 \in DOMAIN data THEN (data[n \div 8 + 1] \div Pow2(n % 8)) % 2 ELSE 0

\* bit n of the frame counted MSB-first from byte 0
MsbFirstBit(data, n) == (data[n \div 8 + 1] \div Pow2(7 - (n % 8))) % 2

RECURSIVE WeightedSum(_, _)
WeightedSum(bits, n) ==
    IF n = 0 THEN 0 ELSE bits[n] + 2 * WeightedSum(bits, n - 1)

\* the unsigned field: bits[1] is the most significant of the `length` bits
LittleEndianField(data, start_bit, length) ==
    WeightedSum([j \in 1..length |-> LsbFirstBit(data, start_bit + length - j)], length)

BigEndianStart(start_bit) == 8 * (start_bit \div 8) + (7 - (start_bit % 8))

BigEndianInData(data, start_bit, length) ==
    \A i \in 0..(length - 1) : (BigEndianStart(start_bit) + i) \div 8 + 1 \in DOMAIN data

BigEndianField(data, start_bit, length) ==
    WeightedSum([j \in 1..length |-> MsbFirstBit(data, BigEndianStart(start_bit) + j - 1)],
                length)

TwosComplement(field, length) ==
    IF field >= Pow2(length - 1) THEN field - Pow2(length) ELSE field

\* C38: extract_signal_value in little-endian mode returns ((data read as an
\* LSB-first unsigned integer) >> start_bit) & (2^length - 1); in big-endian
\* mode it accumulates MSB-first the `length` bits starting at bit_index
\* 8 * (start_bit div 8) + (7 - start_bit mod 8), and returns nothing when
\* one of them lies beyond the data; when signed and length > 0 the result
\* is the two's-complement value, so an unsigned result lies in
\* [0, 2^length) and a signed one in [-2^(length-1), 2^(length-1)).
C38_ExtractedValue ==
    pc = "returned" =>
        LET data == call_args[1]
            start_bit == call_args[2]
            length == call_args[3]
            is_big_endian == call_args[4]
            is_signed == call_args[5]
            field == IF is_big_endian
                     THEN BigEndianField(data, start_bit, length)
                     ELSE LittleEndianField(data, start_bit, length)
            val == call_result.val
        IN /\ call_result.ok = (~is_big_endian \/ BigEndianInData(data, start_bit, length))
           /\ call_result.ok =>
                /\ val = IF is_signed /\ length > 0
                         THEN TwosComplement(field, length) ELSE field
                /\ IF is_signed /\ length > 0
                   THEN 0 - Pow2(length - 1) <= val /\ val < Pow2(length - 1)
                   ELSE 0 <= val /\ val < Pow2(length)

\* a signed 16-bit big-endian signal at start bit 7 of B4 FF: negative
C38_Witness ==
    /\ pc = "returned"
    /\ call_args = <<<<180, 255>>, 7, 16, TRUE, TRUE>>
    /\ call_result = [ok |-> TRUE, val |-> 0 - 19201]

\* ---- schedule grouping ----
\* the schedules map of the last call
Grouped == call_args[Len(call_args)]

GroupOf(rep) == {n \in DOMAIN Grouped : call_result.orig_to_rep[n] = rep}

StrictlySorted(names) ==
    \A i, j \in DOMAIN names : i < j => NameRank(names[i]) < NameRank(names[j])

\* C39: group_equivalent_schedules puts two schedule tables in the same group
\* if and only if their ordered (frame_name, delay_ms) sequences are
\* identical (a value that is no list stays alone); every original name maps
\* to exactly one representative, which is a key of the unique set and has
\* identical content; the representative is the first name of its group in
\* sorted name order; each representative's member list is sorted,
\* duplicate-free and contains the representative.
C39_GroupsByContent ==
    pc \in {"returned", "regrouped"} =>
        LET r == call_result
        IN /\ DOMAIN r.orig_to_rep = DOMAIN Grouped
           /\ \A a, b \in DOMAIN Grouped :
                (Grouped[a].is_list /\ Grouped[b].is_list)
                    => ((r.orig_to_rep[a] = r.orig_to_rep[b])
                            <=> (Grouped[a].entries = Grouped[b].entries))
           /\ \A a \in DOMAIN Grouped :
                /\ ~Grouped[a].is_list => r.orig_to_rep[a] = a
                /\ r.orig_to_rep[a] \in DOMAIN r.unique
                /\ r.unique[r.orig_to_rep[a]] = Grouped[a]
                /\ \A b \in GroupOf(r.orig_to_rep[a]) :
                        NameRank(r.orig_to_rep[a]) <= NameRank(b)
           /\ DOMAIN r.rep_to_all = DOMAIN r.unique
           /\ \A rep \in DOMAIN r.rep_to_all :
                /\ StrictlySorted(r.rep_to_all[rep])
                /\ {r.rep_to_all[rep][i] : i \in DOMAIN r.rep_to_all[rep]} = GroupOf(rep)
                /\ rep \in GroupOf(rep)

\* T and T2 hold the same slots, T1 holds them in the other order
C39_Witness ==
    /\ pc = "returned"
    /\ DOMAIN call_args[1] = {"T", "T1", "T2"}
    /\ call_args[1]["T"] = TableList(<<Slot("F1", 10), Slot("F2", 10)>>)
    /\ call_args[1]["T1"] = TableList(<<Slot("F2", 10), Slot("F1", 10)>>)
    /\ call_args[1]["T2"] = call_args[1]["T"]
    /\ call_result.orig_to_rep = [n \in {"T", "T1", "T2"} |->
                                     IF n = "T1" THEN "T1" ELSE "T"]
    /\ call_result.rep_to_all["T"] = <<"T", "T2">>

\* ---- gateway map indices ----
\* the element at 0-based position p of the user's list is the dict m
AtOriginalPosition(p, m) ==
    /\ p + 1 \in DOMAIN call_args
    /\ call_args[p + 1].is_dict
    /\ call_args[p + 1].fields = m

\* C40: each gateway mapping that survives validation carries, as its map
\* index, its position in the original user-supplied list, also when
\* earlier records of that list were dropped as invalid; the lookup that
\* keys results and event buffers refers to the mapping by that index.
C40_MapIndexIsOriginalPosition ==
    pc = "returned" =>
        /\ \A k \in DOMAIN call_result.user_gateway_map :
              AtOriginalPosition(call_result.user_gateway_map[k].map_index,
                                 call_result.user_gateway_map[k].mapping)
        /\ \A reg \in call_result.gateway_lookup.source :
              \E m \in {MapLinToCan, MapCanToLin} :
                  AtOriginalPosition(reg[3], m) /\ m.source_network = reg[1]
        /\ \A reg \in call_result.gateway_lookup.target :
              \E m \in {MapLinToCan, MapCanToLin} :
                  AtOriginalPosition(reg[3], m) /\ m.target_network = reg[1]

====
